---- MODULE Spec2Model ----
(***************************************************************************)
(* HyperDiskUsage (hyperdu-core): the work-stealing directory scan of      *)
(* scan_directory_with, the Linux getdents64/statx backend, the filter     *)
(* layers, hardlink de-duplication, the adaptive tuner and the rollup of   *)
(* per-directory totals to ancestors.                                      *)
(*                                                                         *)
(* Paths are sequences of components whose first component is the root     *)
(* directory "/"; Path::components().count() is therefore Len.  Names are  *)
(* byte strings; the names of the modelled trees are one byte long.        *)
(***************************************************************************)
EXTENDS Integers, Sequences, FiniteSets, TLC

VARIABLES
    opt,             \* Options of the running scan (immutable after start)
    env,             \* process environment / file system flavour
    cancel,          \* Options.cancel
    active_threads,  \* Options.active_threads
    dir_yield_every, \* Options.dir_yield_every
    uring_batch,     \* Options.uring_batch
    high,            \* ScanContext.high_injector   (FIFO of Job)
    normal,          \* ScanContext.normal_injector (FIFO of Job)
    wpc,             \* worker i: position in its loop
    wjob,            \* worker i: Job being processed
    wpos,            \* worker i: index of the last directory entry read
    wproc,           \* worker i: `processed` of the running process_dir
    wyield,          \* worker i: `yield_every` of the running process_dir
    lmap,            \* worker i: local_map
    inode_cache,     \* Options.inode_cache  (set of (dev, ino) keys)
    visited_dirs,    \* Options.visited_dirs (set of (dev, ino) keys)
    total_files,     \* ScanContext.total_files
    mpc,             \* the calling thread of scan_directory_with
    result,          \* the StatMap returned
    tpc,             \* tuner thread position
    running,         \* TunerGuard.running
    tstate,          \* TuneState and the tuner's snapshots
    gcount,          \* history: child path -> times counted into a Stat
    gjobs,           \* history: every Job ever pushed to an injector
    gdecide,         \* history: enqueue decisions taken on directory children
    gafter,          \* history: worker i: process_dir calls begun after cancel
    rin,             \* rollup: the input map
    rout,            \* rollup: the output map
    rpc,             \* rollup: position
    error_count,     \* Options.error_count
    gerr,            \* history: invocations of Options.error_report
    gprog,           \* history: values the progress callback was invoked with
    scan_no,         \* which scan_directory_with call of the caller is running
    result1,         \* the StatMap the caller's first call returned
    proots,          \* parallel_scan: state of the scan of each root
    pres,            \* parallel_scan: what the call returned
    bk,              \* one directory entry handed to both Linux backends
    bloom,           \* Options.visited_bloom (keys whose bits are set)
    gdeq,            \* history: Job -> times it was stolen from an injector
    gsaw,            \* history: worker i saw the high injector empty in this iteration
    wring,           \* worker i: locals of the running process_with_ring
    tn,              \* the tuner thread on its own: its locals and the knobs
    ur,              \* one process_with_ring call: the STATX pipeline
    vb               \* callers of the loop detection: Bloom bits, visit set, calls

vars == <<opt, env, cancel, active_threads, dir_yield_every, uring_batch,
          high, normal, wpc, wjob, wpos, wproc, wyield, lmap, inode_cache, visited_dirs,
          total_files, mpc, result, tpc, running, tstate,
          gcount, gjobs, gdecide, gafter, rin, rout, rpc,
          error_count, gerr, gprog, scan_no, result1, proots, pres, bk, bloom,
          gdeq, gsaw, wring, tn, ur, vb>>

scanVars == <<opt, env, cancel, active_threads, dir_yield_every, uring_batch,
              high, normal, wpc, wjob, wpos, wproc, wyield, lmap, inode_cache, visited_dirs,
              total_files, mpc, result, tpc, running, tstate,
              gcount, gjobs, gdecide, gafter>>

rollupVars == <<rin, rout, rpc>>

errVars == <<error_count, gerr>>

callerVars == <<scan_no, result1>>

multiVars == <<proots, pres>>

\* what the steps of one scan leave alone besides the error counters and the
\* progress history
restVars == <<callerVars, multiVars, bk, gdeq, gsaw, wring, tn, ur, vb>>

fetchVars == <<gdeq, gsaw>>

\* what no step of a scan touches
sideVars == <<callerVars, multiVars, bk, tn, ur, vb>>

-----------------------------------------------------------------------------
(* Bounds of the model *)

MaxThreads == 2
MaxYield == 2
MaxDepthOpt == 2
\* symbolic links followed in one path resolution before open fails with
\* ELOOP (the kernel's limit, scaled down)
MaxLinkHops == 1
\* roots handed to one parallel_scan call
MaxRoots == 3

-----------------------------------------------------------------------------
(* Stat and StatMap *)

ZeroStat == [logical |-> 0, physical |-> 0, files |-> 0]

AddStat(a, b) ==
    [logical  |-> a.logical + b.logical,
     physical |-> a.physical + b.physical,
     files    |-> a.files + b.files]

EmptyMap == [p \in {} |-> ZeroStat]

\* merged.insert(k, s): the entry is replaced, not added to
AddToReplacing(m, k, s) ==
    IF k \in DOMAIN m THEN [m EXCEPT ![k] = s]
    ELSE m @@ (k :> s)

\* merged.entry(k).or_default() += s
AddTo(m, k, s) ==
    IF k \in DOMAIN m THEN [m EXCEPT ![k] = AddStat(@, s)]
    ELSE m @@ (k :> AddStat(ZeroStat, s))

\* map.entry(k).or_default()
EntryOrDefault(m, k) == IF k \in DOMAIN m THEN m ELSE m @@ (k :> ZeroStat)

\* stat_cur.logical += logical; stat_cur.physical += physical; stat_cur.files += 1
update_file_stats(m, dir, logical, physical) ==
    [m EXCEPT ![dir] = [logical  |-> @.logical + logical,
                        physical |-> @.physical + physical,
                        files    |-> @.files + 1]]

-----------------------------------------------------------------------------
(* rollup.rs *)

depth_of(p) == Len(p)

\* Path::parent: None for the root directory, else the path without its
\* last component.  An Option is a sequence of length 0 or 1.
parent(p) == IF Len(p) > 1 THEN <<SubSeq(p, 1, Len(p) - 1)>> ELSE <<>>

\* The recursive operators below bind the values they pass on through
\* one-element sets, so that each is evaluated once.
Only(S) == CHOOSE x \in S : TRUE

RollOne(m, p) ==
    IF parent(p) # <<>> /\ p \in DOMAIN m
    THEN AddTo(m, parent(p)[1], m[p])
    ELSE m

RECURSIVE RollPaths(_, _)
\* for p in paths { ... }
RollPaths(m, ps) ==
    IF ps = {} THEN m
    ELSE Only({ RollPaths(RollOne(mm, pp), qs \ {pp}) :
                    <<mm, qs, pp>> \in { <<m, ps, Only(ps)>> } })

RECURSIVE RollDepth(_, _, _)
\* for d in (1..=maxd).rev() { if let Some(paths) = by_depth.get(&d) { ... } }
RollDepth(m, by_depth, d) ==
    IF d < 1 THEN m
    ELSE Only({ RollDepth(RollPaths(mm, {p \in by_depth : depth_of(p) = d}), by_depth, d - 1) :
                    mm \in {m} })

SetMax(S) == IF S = {} THEN 0 ELSE CHOOSE x \in S : \A y \in S : y <= x

rollup_child_to_parent(merged) ==
    Only({ RollDepth(mg, DOMAIN mg, SetMax({depth_of(p) : p \in DOMAIN mg})) :
               mg \in {merged} })

-----------------------------------------------------------------------------
(* The file system scanned: a finite static tree.                          *)
(*                                                                         *)
(*   /r        a (file, 1 byte)   d (dir)   m (dir, a mount point)         *)
(*   /r/d      b (file, 2 bytes)  h (file, hard link of /r/a)   e (dir)    *)
(*   /r/d/e    c (file, 4 bytes)                                           *)
(*   /r/m      x (file, 8 bytes, on the mounted device)                    *)

Root == <<"/", "r">>

\* PathBuf::join
Join(dir, name) == Append(dir, name)

RootDev(e)  == [major |-> e.rootMajor, minor |-> 1]
MountDev(e) == [major |-> e.rootMajor, minor |-> 2]

FileEnt(n, sz, blk, dv, i) ==
    [name |-> n, kind |-> "S_IFREG", size |-> sz, blocks |-> blk, dev |-> dv, ino |-> i,
     target |-> <<>>]

DirEnt(n, dv, i) ==
    [name |-> n, kind |-> "S_IFDIR", size |-> 0, blocks |-> 0, dev |-> dv, ino |-> i,
     target |-> <<>>]

\* a symbolic link to the directory t
LinkEnt(n, dv, i, t) ==
    [name |-> n, kind |-> "S_IFLNK", size |-> 1, blocks |-> 0, dev |-> dv, ino |-> i,
     target |-> t]

\* The entries of a directory given by its canonical path, in d_off order
\* ("." and ".." are skipped by every backend and left out).  Variants of
\* the tree: with e.links, /r/d holds l, a symbolic link back to /r; with
\* e.xlink, /r/m is an ordinary directory whose x is a hard link of /r/d/b.
TreeEntries(e, dir) ==
    CASE dir = Root ->
            << FileEnt("a", 1, 1, RootDev(e), 10),
               DirEnt("d", RootDev(e), 2),
               DirEnt("m", IF e.xlink THEN RootDev(e) ELSE MountDev(e), 3) >>
      [] dir = <<"/", "r", "d">> ->
            << FileEnt("b", 2, 1, RootDev(e), 11),
               FileEnt("h", 1, 1, RootDev(e), 10),
               DirEnt("e", RootDev(e), 4) >>
            \o (IF e.links THEN << LinkEnt("l", RootDev(e), 5, Root) >> ELSE << >>)
      [] dir = <<"/", "r", "d", "e">> ->
            << FileEnt("c", 4, 0, RootDev(e), 12) >>
      [] dir = <<"/", "r", "m">> ->
            << IF e.xlink THEN FileEnt("x", 2, 1, RootDev(e), 11)
               ELSE FileEnt("x", 8, 1, MountDev(e), 10) >>
      [] OTHER -> << >>

\* the entry called name among the entries es
EntryNamed(es, name) == es[CHOOSE i \in 1..Len(es) : es[i].name = name]

\* one step of a path resolution: from the directory par to its entry name,
\* through the link if the entry is a symbolic link
ResolveStep(es, par, name) ==
    IF \E i \in 1..Len(es) : es[i].name = name /\ es[i].kind = "S_IFLNK"
    THEN EntryNamed(es, name).target
    ELSE Append(par, name)

RECURSIVE Canon(_, _)
\* the directory a path resolves to when its symbolic links are followed
Canon(e, p) ==
    IF ~e.links \/ Len(p) <= Len(Root) THEN p
    ELSE Only({ ResolveStep(TreeEntries(e, par), par, p[Len(p)]) :
                    par \in { Canon(e, SubSeq(p, 1, Len(p) - 1)) } })

\* what getdents64 returns for the directory opened through the path dir
DirEntries(e, dir) == TreeEntries(e, Canon(e, dir))

AllDirs == { Root, <<"/", "r", "d">>, <<"/", "r", "d", "e">>, <<"/", "r", "m">> }

RECURSIVE ChildrenFrom(_, _, _)
\* the paths of the entries met from dir on, following at most `hops`
\* symbolic links to directories
ChildrenFrom(e, dir, hops) ==
    UNION { { Join(dir, en.name) }
            \cup (IF en.kind = "S_IFDIR" THEN ChildrenFrom(e, Join(dir, en.name), hops)
                  ELSE IF en.kind = "S_IFLNK" /\ hops > 0
                       THEN ChildrenFrom(e, Join(dir, en.name), hops - 1)
                  ELSE {}) :
            en \in { DirEntries(e, dir)[i] : i \in 1..Len(DirEntries(e, dir)) } }

\* every path a scan can reach an entry by
AllChildren(e) == ChildrenFrom(e, Root, IF e.links THEN MaxLinkHops ELSE 0)

\* the directory entry behind a child path
EntryOf(e, child) ==
    EntryNamed(DirEntries(e, SubSeq(child, 1, Len(child) - 1)), child[Len(child)])

\* the number of symbolic links on the path p
LinkCount(e, p) ==
    IF ~e.links THEN 0
    ELSE Cardinality({ n \in (Len(Root) + 1)..Len(p) :
                    EntryOf(e, SubSeq(p, 1, n)).kind = "S_IFLNK" })

\* the entry statx reports on: the link itself with AT_SYMLINK_NOFOLLOW, else
\* the directory it points to
StatTarget(o, e, ent) ==
    IF o.follow_links /\ ent.kind = "S_IFLNK"
    THEN (IF ent.target = Root THEN DirEnt(ent.name, RootDev(e), 1)
          ELSE [EntryOf(e, ent.target) EXCEPT !.name = ent.name])
    ELSE ent

\* dirent d_type: file systems that do not fill it in report DT_UNKNOWN
d_type(e, ent) ==
    IF ~e.dtKnown THEN "DT_UNKNOWN"
    ELSE IF ent.kind = "S_IFDIR" THEN "DT_DIR"
    ELSE IF ent.kind = "S_IFREG" THEN "DT_REG"
    ELSE IF ent.kind = "S_IFLNK" THEN "DT_LNK"
    ELSE "DT_UNKNOWN"

\* A u64 is kept as its two 32-bit words <<high, low>>.
\* st_dev as fstat reports it (dev_t: the minor in the low 8 bits, the
\* major above it, for the small numbers used here)
StDev(dv) == <<0, dv.major * 256 + dv.minor>>

\* ((stx_dev_major as u64) << 32) | (stx_dev_minor as u64)
StatxDev(dv) == <<dv.major, dv.minor>>

-----------------------------------------------------------------------------
(* Names, path strings and the three filter layers *)

\* the bytes of a name (names here are one byte long)
Bytes(name) == <<name>>

\* Path::to_string_lossy of an absolute path
RECURSIVE PathStr(_)
PathStr(p) ==
    IF Len(p) = 1 THEN Bytes(p[1])
    ELSE IF Len(p) = 2 THEN Bytes(p[1]) \o Bytes(p[2])
    ELSE PathStr(SubSeq(p, 1, Len(p) - 1)) \o <<"/">> \o Bytes(p[Len(p)])

\* str::contains / memmem::find / AhoCorasick::is_match for one pattern
Contains(hay, pat) ==
    \E i \in 0..(Len(hay) - Len(pat)) : SubSeq(hay, i + 1, i + Len(pat)) = pat

\* Regex::is_match for a literal with optional ^ and $ anchors
RegexMatch(hay, re) ==
    \E i \in 0..(Len(hay) - Len(re.lit)) :
        /\ SubSeq(hay, i + 1, i + Len(re.lit)) = re.lit
        /\ (re.anchorStart => i = 0)
        /\ (re.anchorEnd => i + Len(re.lit) = Len(hay))

\* Glob::is_match for a glob of the form **/comp/** : some component other
\* than the last one is comp
GlobMatch(p, g) == \E i \in 2..(Len(p) - 1) : p[i] = g.comp

\* compile_filters_in_place: exclude_regex_set is Some(set) only when
\* RegexSet::new accepts every pattern of the list (None is the empty set)
exclude_regex_set(o) ==
    IF \A re \in o.exclude_regex : re.valid THEN o.exclude_regex ELSE {}

name_contains_patterns_bytes(name, patterns) ==
    \E pat \in patterns : pat # <<>> /\ Contains(name, pat)

name_matches(name, o) ==
    \/ o.exclude_contains # {} /\ \E pat \in o.exclude_contains : Contains(name, pat)
    \/ \E re \in exclude_regex_set(o) : RegexMatch(name, re)
    \/ name_contains_patterns_bytes(name, o.exclude_contains)

should_exclude_legacy(p, patterns) ==
    \E q \in patterns : q # <<>> /\ Contains(PathStr(p), q)

path_excluded(p, o) ==
    \/ \E g \in o.exclude_glob : GlobMatch(p, g)
    \/ \E re \in exclude_regex_set(o) : RegexMatch(PathStr(p), re)
    \/ should_exclude_legacy(p, o.exclude_contains)

should_fast_exclude(o) ==
    ~ \E s \in o.exclude_contains : \E i \in 1..Len(s) : s[i] = "/" \/ s[i] = "\\"

-----------------------------------------------------------------------------
(* common_ops.rs *)

DedupKey(ent) == <<StatxDev(ent.dev), ent.ino>>

\* TRUE when the file is a duplicate to skip (the cache insert that goes
\* with it is CacheAfter)
check_hardlink_duplicate(o, cache, key) ==
    IF o.count_hardlinks THEN FALSE
    ELSE IF o.inode_cache THEN key \in cache
    ELSE FALSE

CacheAfter(o, cache, key) ==
    IF ~o.count_hardlinks /\ o.inode_cache THEN cache \cup {key} ELSE cache

calculate_physical_size(o, logical, blocks) ==
    IF ~o.compute_physical THEN logical
    ELSE IF blocks * 512 = 0 THEN logical
    ELSE blocks * 512

\* total_files after report_file_progress
report_file_progress(o, n) == IF o.progress_every = 0 THEN n ELSE n + 1

\* tests the counter as it stood before the increment
progress_calls_stale(o, n) ==
    IF o.progress_every = 0 THEN << >>
    ELSE IF n % o.progress_every = 0 THEN << n + 1 >>
    ELSE << >>

\* the values report_file_progress hands to the progress callback when the
\* counter stood at n: let n = fetch_add(1) + 1; if n % progress_every == 0
progress_calls(o, n) ==
    IF o.progress_every = 0 THEN << >>
    ELSE IF (n + 1) % o.progress_every = 0 THEN << n + 1 >>
    ELSE << >>

\* notifies the reporter and leaves the counter alone
record_error_uncounted(o, errs) ==
    <<errs[1], IF o.error_report THEN errs[2] + 1 ELSE errs[2]>>

\* record_error: error_count.fetch_add(1), then the reporter if there is one
record_error(o, errs) ==
    <<errs[1] + 1, IF o.error_report THEN errs[2] + 1 ELSE errs[2]>>

-----------------------------------------------------------------------------
(* Options and the environment of a scan *)

DefaultExcludes == { <<".", "g", "i", "t">> }

\* Options as OptionsBuilder::build leaves them when nothing is overridden
\* but the thread count.  `built` is FALSE for a bare Options::default(),
\* `yield0` is HYPERDU_DIR_YIELD_EVERY.
BaseOpt ==
    [threads |-> 2, max_depth |-> 0, min_file_size |-> 0, follow_links |-> FALSE,
     compute_physical |-> TRUE, approximate_sizes |-> FALSE,
     count_hardlinks |-> FALSE, inode_cache |-> FALSE,
     one_file_system |-> FALSE, progress_every |-> 0,
     exclude_contains |-> DefaultExcludes, exclude_regex |-> {}, exclude_glob |-> {},
     visited_dirs |-> FALSE, built |-> TRUE, yield0 |-> 0,
     visited_bloom |-> FALSE, error_report |-> FALSE]

\* d_type filled in, root on device 8:1, HYPERDU_TUNE unset,
\* HYPERDU_STATX_BATCH=4064
Once == [mode |-> "no", threads |-> 0, contains |-> {}, regex |-> {}, glob |-> {}]

\* No symbolic link, no hard link across sibling directories, every open,
\* getdents64 and statx succeeds, the caller scans once, no worker thread
\* has an io_uring ring (`rings`): the getdents64 backend runs everywhere.
BaseEnv ==
    [dtKnown |-> TRUE, rootMajor |-> 8, tune |-> FALSE, statx_batch |-> 4064,
     links |-> FALSE, xlink |-> FALSE, noopen |-> {}, nostat |-> {}, dentsErr |-> {},
     again |-> Once, rings |-> {}]

GlobUnderD  == [comp |-> "d"]
RegexPathB  ==
    [lit |-> <<"/", "d", "/", "b">>, anchorStart |-> FALSE, anchorEnd |-> TRUE, valid |-> TRUE]
RegexNameC  == [lit |-> <<"c">>, anchorStart |-> TRUE, anchorEnd |-> TRUE, valid |-> TRUE]
\* a pattern the regex crate rejects, such as "("
RegexInvalid == [lit |-> <<"(">>, anchorStart |-> FALSE, anchorEnd |-> FALSE, valid |-> FALSE]

\* BaseOpt with one worker
OneOpt == [BaseOpt EXCEPT !.threads = 1]

\* scans with two workers
TwoWorkerOpts ==
    { BaseOpt,
      [BaseOpt EXCEPT !.yield0 = 2],
      [BaseOpt EXCEPT !.inode_cache = TRUE],
      [BaseOpt EXCEPT !.inode_cache = TRUE, !.compute_physical = FALSE,
                      !.approximate_sizes = TRUE],
      [BaseOpt EXCEPT !.exclude_glob = { GlobUnderD }],
      [BaseOpt EXCEPT !.built = FALSE] }
    \cup { [BaseOpt EXCEPT !.max_depth = m] : m \in 1..MaxDepthOpt }

\* scans with one worker (and the thread counts up to MaxThreads)
OneWorkerOpts ==
    { [BaseOpt EXCEPT !.threads = t] : t \in 1..MaxThreads }
    \cup { [OneOpt EXCEPT !.yield0 = y] : y \in 1..MaxYield }
    \cup { [OneOpt EXCEPT !.max_depth = m, !.yield0 = 1] : m \in 1..MaxDepthOpt }
    \cup { [OneOpt EXCEPT !.inode_cache = TRUE, !.count_hardlinks = TRUE],
           [OneOpt EXCEPT !.inode_cache = TRUE, !.yield0 = 1],
           [OneOpt EXCEPT !.min_file_size = 2],
           [OneOpt EXCEPT !.min_file_size = 2, !.inode_cache = TRUE],
           [OneOpt EXCEPT !.progress_every = 2],
           [OneOpt EXCEPT !.exclude_contains = { <<"d">> }],
           [OneOpt EXCEPT !.exclude_contains = { <<"d", "/", "b">> }],
           [OneOpt EXCEPT !.exclude_contains = { <<"d", "/", "b">> },
                          !.exclude_glob = { GlobUnderD }],
           [OneOpt EXCEPT !.exclude_regex = { RegexNameC }],
           [OneOpt EXCEPT !.exclude_regex = { RegexPathB }] }

FsVariants ==
    { BaseEnv,
      [BaseEnv EXCEPT !.dtKnown = FALSE],
      [BaseEnv EXCEPT !.rootMajor = 0],
      [BaseEnv EXCEPT !.rootMajor = 0, !.dtKnown = FALSE] }

TuneEnv == [BaseEnv EXCEPT !.tune = TRUE]

\* the (Options, environment) pairs a scan is started with
Scenarios ==
    { <<o, BaseEnv>> : o \in TwoWorkerOpts \cup OneWorkerOpts }
    \cup { <<[BaseOpt EXCEPT !.one_file_system = TRUE], e>> : e \in FsVariants }
    \cup { <<BaseOpt, [BaseEnv EXCEPT !.dtKnown = FALSE]>>,
           <<[BaseOpt EXCEPT !.max_depth = 1], [BaseEnv EXCEPT !.dtKnown = FALSE]>>,
           <<[BaseOpt EXCEPT !.inode_cache = TRUE], [BaseEnv EXCEPT !.dtKnown = FALSE]>>,
           <<[OneOpt EXCEPT !.exclude_glob = { GlobUnderD }], [BaseEnv EXCEPT !.dtKnown = FALSE]>>,
           <<[BaseOpt EXCEPT !.built = FALSE], TuneEnv>>,
           <<[BaseOpt EXCEPT !.built = FALSE, !.progress_every = 2, !.max_depth = 1], TuneEnv>>,
           <<[OneOpt EXCEPT !.progress_every = 2], TuneEnv>> }

Max(a, b) == IF a >= b THEN a ELSE b
Min(a, b) == IF a <= b THEN a ELSE b

WorkerIds == 0..(MaxThreads - 1)

\* let threads = opt.threads.max(1); workers are spawned for 0..threads
Workers(o) == 0..(Max(o.threads, 1) - 1)

Job(d, dp, r) == [dir |-> d, depth |-> dp, resume |-> r]

NoJob == Job(<<>>, 0, <<>>)

\* no job stolen yet
NoneTaken == [j \in {} |-> 0]

CountUp(f, k) == IF k \in DOMAIN f THEN [f EXCEPT ![k] = @ + 1] ELSE f @@ (k :> 1)

\* enq and files_before of a process_with_ring call; none is running
NoRingLocals == [enq |-> 0, files_before |-> 0]

\* the yield candidates of the tuner
yield_steps == <<0, 4096, 8192, 16384, 32768, 65536, 131072>>

AbsDiff(a, b) == IF a >= b THEN a - b ELSE b - a

\* the first index (0-based) whose candidate is nearest to cur
NearestYieldIdx(cur) ==
    (CHOOSE i \in 1..Len(yield_steps) :
        /\ \A j \in 1..Len(yield_steps) :
              AbsDiff(yield_steps[i], cur) <= AbsDiff(yield_steps[j], cur)
        /\ \A j \in 1..(i - 1) :
              AbsDiff(yield_steps[j], cur) > AbsDiff(yield_steps[i], cur)) - 1

\* values of the rollup variables while a scan runs
RollupIdle == rin = EmptyMap /\ rout = EmptyMap /\ rpc = "idle"

\* scan_directory_with up to the spawning of the workers: the root job is in
\* the high-priority injector, the tuner runs when HYPERDU_TUNE=1
InitScanWith(o, e) ==
    /\ opt = o
    /\ env = e
    /\ cancel = FALSE
    /\ active_threads = IF o.built THEN Max(o.threads, 1) ELSE 0
    /\ dir_yield_every = o.yield0
    /\ uring_batch = e.statx_batch
    /\ high = << Job(Root, 0, <<>>) >>
    /\ normal = << >>
    /\ wpc = [w \in WorkerIds |-> IF w \in Workers(o) THEN "top" ELSE "none"]
    /\ wjob = [w \in WorkerIds |-> NoJob]
    /\ wpos = [w \in WorkerIds |-> 0]
    /\ wproc = [w \in WorkerIds |-> 0]
    /\ wyield = [w \in WorkerIds |-> 0]
    /\ lmap = [w \in WorkerIds |-> EmptyMap]
    /\ total_files = 0
    /\ mpc = "join"
    /\ result = EmptyMap
    /\ tpc = IF e.tune THEN "check" ELSE "none"
    /\ running = e.tune
    /\ tstate = [idx |-> NearestYieldIdx(o.yield0), dir |-> 1, last_n |-> 0,
                 last_fps_pos |-> FALSE, best_fps_pos |-> FALSE]
    /\ gcount = [c \in AllChildren(e) |-> 0]
    /\ gjobs = { Job(Root, 0, <<>>) }
    /\ gdecide = {}
    /\ gafter = [w \in WorkerIds |-> 0]
    /\ gprog = << >>
    /\ gdeq = NoneTaken
    /\ gsaw = [w \in WorkerIds |-> FALSE]
    /\ wring = [w \in WorkerIds |-> NoRingLocals]

\* a fresh Options value: nothing recorded, empty caches; the first call
FirstCall ==
    /\ inode_cache = {}
    /\ visited_dirs = {}
    /\ bloom = {}
    /\ error_count = 0
    /\ gerr = 0
    /\ scan_no = 1
    /\ result1 = EmptyMap

\* no parallel_scan call
MultiIdle == proots = << >> /\ pres = [kind |-> "none", map |-> EmptyMap]

\* no entry under comparison
BackendsIdle == bk = [pc |-> "idle"]

\* no tuner thread looked at on its own
TunerIdle == tn = [pc |-> "idle"]

\* no process_with_ring call looked at on its own
PipelineIdle == ur = [pc |-> "idle"]

\* no loop-detection call looked at on its own
VisitIdle == vb = [pc |-> "idle"]

Init ==
    /\ \E s \in Scenarios : InitScanWith(s[1], s[2])
    /\ FirstCall
    /\ RollupIdle
    /\ MultiIdle
    /\ BackendsIdle
    /\ TunerIdle
    /\ PipelineIdle
    /\ VisitIdle

-----------------------------------------------------------------------------
(* platform/linux_x86_64_impl.rs: process_dir, one directory entry *)

\* the device of a directory as fstat on its descriptor reports it
DirDev(e, dir) ==
    Only({ IF c = Root THEN RootDev(e) ELSE EntryOf(e, c).dev : c \in { Canon(e, dir) } })

\* TRUE when the directory is to be skipped.  The Bloom filter is kept as
\* the exact set of the keys set in it: on a key it has not seen the
\* function returns before the insert into the visit set.
check_visited_directory(o, vset, bl, key) ==
    IF ~o.follow_links THEN FALSE
    ELSE IF o.visited_dirs
         THEN (IF o.visited_bloom /\ key \notin bl THEN FALSE ELSE key \in vset)
    ELSE FALSE

VisitedAfter(o, vset, bl, key) ==
    IF o.follow_links /\ o.visited_dirs /\ (o.visited_bloom => key \in bl)
    THEN vset \cup {key} ELSE vset

\* Bloom::test_and_set
BloomAfter(o, bl, key) ==
    IF o.follow_links /\ o.visited_dirs /\ o.visited_bloom THEN bl \cup {key} ELSE bl

\* open(c_path, O_RDONLY | O_DIRECTORY | ...) < 0: the directory is not
\* readable, or its path follows more symbolic links than the kernel allows
OpenFails(e, dir) == dir \in e.noopen \/ LinkCount(e, dir) > MaxLinkHops

\* opt.max_depth == 0 || depth <= opt.max_depth
DepthBudgetInclusive(o, depth) == o.max_depth = 0 \/ depth <= o.max_depth

\* opt.max_depth == 0 || depth < opt.max_depth
DepthBudget(o, depth) == o.max_depth = 0 \/ depth < o.max_depth

\* What the loop body does with one entry.  cont: the body left through
\* `continue` (the entry is not added to `processed`); push: the Job pushed
\* to the normal injector; stat: the (logical, physical) handed to
\* update_file_stats; cache, vset: the inode cache and visited set after it;
\* decide: the enqueue decision taken on a directory and its reason.
\* cur_dev is fstat's st_dev of the open directory, st what statx reports
\* for the entry.
FastEntryWith(o, e, cache, vset, bl, dir, depth, ent, cur_dev, st) ==
    LET name    == Bytes(ent.name)
        child   == Join(dir, ent.name)
        dt      == d_type(e, ent)
        key     == DedupKey(st)
        vkey    == <<cur_dev, ent.ino>>
        failing == child \in e.nostat
        pass    == [cont |-> FALSE, push |-> <<>>, stat |-> <<>>,
                    cache |-> cache, vset |-> vset, bloom |-> bl, decide |-> {}]
        skip    == [pass EXCEPT !.cont = TRUE]
        enq     == [pass EXCEPT !.push = << Job(child, depth + 1, <<>>) >>,
                                !.decide = { [child |-> child, enq |-> TRUE, why |-> "ok"] }]
        nodev   == [skip EXCEPT !.decide = { [child |-> child, enq |-> FALSE, why |-> "dev"] }]
        seen    == [skip EXCEPT !.decide = { [child |-> child, enq |-> FALSE, why |-> "visited"] }]
        deep    == [pass EXCEPT !.decide = { [child |-> child, enq |-> FALSE, why |-> "depth"] }]
        counted == [pass EXCEPT
                      !.stat = << <<st.size,
                                    calculate_physical_size(o, st.size, st.blocks)>> >>,
                      !.cache = IF st.kind = "S_IFREG" THEN CacheAfter(o, cache, key)
                                ELSE cache]
        small   == [pass EXCEPT !.cache = IF st.kind = "S_IFREG"
                                          THEN CacheAfter(o, cache, key) ELSE cache]
    IN
    IF name_matches(name, o) THEN skip
    ELSE IF ~should_fast_exclude(o) /\ path_excluded(child, o) THEN skip
    ELSE IF dt = "DT_LNK" /\ ~o.follow_links THEN skip
    ELSE IF dt = "DT_DIR" THEN
        IF ~DepthBudget(o, depth) THEN deep
        ELSE IF o.one_file_system /\ ~failing /\ StatxDev(ent.dev) # cur_dev THEN nodev
        ELSE IF o.follow_links /\ ~failing
             THEN [(IF check_visited_directory(o, vset, bl, vkey) THEN seen ELSE enq)
                     EXCEPT !.vset = VisitedAfter(o, vset, bl, vkey),
                            !.bloom = BloomAfter(o, bl, vkey)]
        ELSE enq
    ELSE IF dt = "DT_REG" THEN
        IF ~o.compute_physical /\ o.approximate_sizes /\ o.min_file_size = 0
        THEN [pass EXCEPT !.stat = << <<4096, 4096>> >>]
        ELSE IF failing THEN pass
        ELSE IF check_hardlink_duplicate(o, cache, key) THEN skip
        ELSE IF st.size >= o.min_file_size THEN counted
        ELSE small
    ELSE
        \* DT_UNKNOWN, DT_LNK and the other types: statx with STATX_MODE,
        \* following the link when follow_links; when it fails
        \* symlink_metadata is tried, and fails as well
        IF failing THEN pass
        ELSE IF st.kind = "S_IFDIR" THEN
            IF DepthBudget(o, depth) THEN enq ELSE deep
        ELSE IF st.kind = "S_IFREG" \/ (o.follow_links /\ st.kind = "S_IFLNK") THEN
            IF st.kind = "S_IFREG" /\ check_hardlink_duplicate(o, cache, key) THEN skip
            ELSE IF st.size >= o.min_file_size THEN counted
            ELSE small
        ELSE pass

FastEntry(o, e, cache, vset, bl, dir, depth, ent) ==
    Only({ FastEntryWith(o, e, cache, vset, bl, dir, depth, ent, s[1], s[2]) :
               s \in { <<StDev(DirDev(e, dir)), StatTarget(o, e, ent)>> } })

-----------------------------------------------------------------------------
(* platform/linux_uring_impl.rs: process_with_ring, one directory entry *)

\* What process_with_ring does with one entry, in the terms of FastEntry.
\* A DT_DIR entry is enqueued while the directory is enumerated; every other
\* entry gets a statx through the ring, and its completion is handled by the
\* drain that happens to reap it: `inline` is the drain inside the
\* enumeration loop, the other two drains behave alike.
UringEntryWith(o, e, cache, dir, depth, ent, inline, cur_dev, st) ==
    LET child   == Join(dir, ent.name)
        dt      == d_type(e, ent)
        key     == DedupKey(st)
        failing == child \in e.nostat
        pass    == [push |-> <<>>, stat |-> <<>>, cache |-> cache]
        enq     == [pass EXCEPT !.push = << Job(child, depth + 1, <<>>) >>]
        counted == [pass EXCEPT
                      !.stat = << <<st.size,
                                    calculate_physical_size(o, st.size, st.blocks)>> >>,
                      !.cache = IF st.kind = "S_IFREG" THEN CacheAfter(o, cache, key)
                                ELSE cache]
        small   == [pass EXCEPT !.cache = IF st.kind = "S_IFREG"
                                          THEN CacheAfter(o, cache, key) ELSE cache]
    IN
    IF dt = "DT_DIR" THEN
        IF DepthBudget(o, depth) THEN enq ELSE pass
    ELSE IF failing THEN pass
    ELSE IF st.kind = "S_IFDIR" THEN
        IF ~DepthBudget(o, depth) THEN pass
        ELSE IF ~inline /\ path_excluded(child, o) THEN pass
        ELSE IF o.one_file_system
             THEN (IF StatxDev(st.dev) = cur_dev THEN enq ELSE pass)
        ELSE enq
    ELSE IF st.kind = "S_IFREG" \/ (o.follow_links /\ st.kind = "S_IFLNK") THEN
        IF st.kind = "S_IFREG" /\ check_hardlink_duplicate(o, cache, key) THEN pass
        ELSE IF st.size >= o.min_file_size THEN counted
        ELSE small
    ELSE pass

UringEntry(o, e, cache, dir, depth, ent, inline) ==
    Only({ UringEntryWith(o, e, cache, dir, depth, ent, inline, s[1], s[2]) :
               s \in { <<StDev(DirDev(e, dir)), StatTarget(o, e, ent)>> } })

-----------------------------------------------------------------------------
(* lib.rs: the worker loop of scan_directory_with *)

\* the loop top with the throttle check before the cancel check: a throttled
\* worker sleeps and starts over without looking at the flag
WorkerTopThrottleFirst(w) ==
    /\ wpc[w] = "top"
    /\ wpc' = [wpc EXCEPT ![w] = IF w >= active_threads THEN "top"
                                 ELSE IF cancel THEN "exit" ELSE "gate"]
    /\ UNCHANGED <<opt, env, cancel, active_threads, dir_yield_every, uring_batch,
                   high, normal, wjob, wpos, wproc, wyield, lmap, inode_cache,
                   visited_dirs, total_files, mpc, result, tpc, running, tstate,
                   gcount, gjobs, gdecide, gafter, rollupVars, errVars, gprog, restVars, bloom>>

\* loop top: if options.cancel.load() { break; }
WorkerTop(w) ==
    /\ wpc[w] = "top"
    /\ wpc' = [wpc EXCEPT ![w] = IF cancel THEN "exit" ELSE "gate"]
    /\ UNCHANGED <<opt, env, cancel, active_threads, dir_yield_every, uring_batch,
                   high, normal, wjob, wpos, wproc, wyield, lmap, inode_cache,
                   visited_dirs, total_files, mpc, result, tpc, running, tstate,
                   gcount, gjobs, gdecide, gafter, rollupVars, errVars, gprog, restVars, bloom>>

\* let act = active_threads.load(); if i >= act { sleep(5ms); continue; }
\* then local.pop(), which is None: nothing ever pushes to a worker deque
WorkerGate(w) ==
    /\ wpc[w] = "gate"
    /\ wpc' = [wpc EXCEPT ![w] = IF w >= active_threads THEN "top" ELSE "high"]
    /\ UNCHANGED <<opt, env, cancel, active_threads, dir_yield_every, uring_batch,
                   high, normal, wjob, wpos, wproc, wyield, lmap, inode_cache,
                   visited_dirs, total_files, mpc, result, tpc, running, tstate,
                   gcount, gjobs, gdecide, gafter, rollupVars, errVars, gprog, restVars, bloom>>

\* the number of directory entries one getdents64 buffer holds (128 KiB in
\* the program)
DentsBuf == 2

\* A fetched job: `if path_excluded(&dir, &options) { continue; }`, else
\* process_dir opens the directory, seeks to the resume offset, creates the
\* map entry and loads dir_yield_every.  On a thread that has a ring
\* process_dir_wrapped runs process_with_ring, which notes the file count of
\* the map entry and loads no yield interval.
BeginJob(w, job) ==
    IF path_excluded(job.dir, opt)
    THEN /\ wpc' = [wpc EXCEPT ![w] = "top"]
         /\ UNCHANGED <<wjob, wpos, wproc, wyield, lmap, gafter, errVars, wring>>
    ELSE IF OpenFails(env, job.dir)
    THEN \* record_error(opt, ..."open"); return
         /\ wpc' = [wpc EXCEPT ![w] = "top"]
         /\ error_count' = record_error(opt, <<error_count, gerr>>)[1]
         /\ gerr' = record_error(opt, <<error_count, gerr>>)[2]
         /\ gafter' = [gafter EXCEPT ![w] = IF cancel THEN @ + 1 ELSE @]
         /\ UNCHANGED <<wjob, wpos, wproc, wyield, lmap, wring>>
    ELSE /\ UNCHANGED errVars
         /\ wpc' = [wpc EXCEPT ![w] = IF w \in env.rings THEN "ring" ELSE "proc"]
         /\ wjob' = [wjob EXCEPT ![w] = job]
         /\ wpos' = [wpos EXCEPT ![w] = IF job.resume = <<>> THEN 0 ELSE job.resume[1]]
         /\ wproc' = [wproc EXCEPT ![w] = 0]
         /\ wyield' = [wyield EXCEPT ![w] = IF w \in env.rings THEN 0 ELSE dir_yield_every]
         /\ lmap' = [lmap EXCEPT ![w] = EntryOrDefault(@, job.dir)]
         /\ wring' = [wring EXCEPT ![w] =
                        IF w \in env.rings
                        THEN [enq |-> 0,
                              files_before |-> EntryOrDefault(lmap[w], job.dir)[job.dir].files]
                        ELSE @]
         /\ gafter' = [gafter EXCEPT ![w] = IF cancel THEN @ + 1 ELSE @]

\* a worker that finds the normal injector holding a job goes for it without
\* having looked at the high injector
WorkerStealHighNormalFirst(w) ==
    /\ wpc[w] = "high"
    /\ IF normal # <<>>
       THEN /\ wpc' = [wpc EXCEPT ![w] = "normal"]
            /\ UNCHANGED <<high, wjob, wpos, wproc, wyield, lmap, gafter, errVars,
                           gdeq, gsaw, wring>>
       ELSE IF high # <<>>
       THEN /\ high' = Tail(high)
            /\ BeginJob(w, Head(high))
            /\ gdeq' = CountUp(gdeq, Head(high))
            /\ gsaw' = [gsaw EXCEPT ![w] = FALSE]
       ELSE /\ wpc' = [wpc EXCEPT ![w] = "normal"]
            /\ gsaw' = [gsaw EXCEPT ![w] = TRUE]
            /\ UNCHANGED <<high, wjob, wpos, wproc, wyield, lmap, gafter, errVars,
                           gdeq, wring>>
    /\ UNCHANGED <<opt, env, cancel, active_threads, dir_yield_every, uring_batch,
                   normal, inode_cache, visited_dirs, total_files, mpc, result,
                   tpc, running, tstate, gcount, gjobs, gdecide, rollupVars,
                   gprog, sideVars, bloom>>

\* high_ref.steal() is Success(j) or Empty
WorkerStealHigh(w) ==
    /\ wpc[w] = "high"
    /\ IF high # <<>>
       THEN /\ high' = Tail(high)
            /\ BeginJob(w, Head(high))
            /\ gdeq' = CountUp(gdeq, Head(high))
            /\ gsaw' = [gsaw EXCEPT ![w] = FALSE]
       ELSE /\ wpc' = [wpc EXCEPT ![w] = "normal"]
            /\ gsaw' = [gsaw EXCEPT ![w] = TRUE]
            /\ UNCHANGED <<high, wjob, wpos, wproc, wyield, lmap, gafter, errVars,
                           gdeq, wring>>
    /\ UNCHANGED <<opt, env, cancel, active_threads, dir_yield_every, uring_batch,
                   normal, inode_cache, visited_dirs, total_files, mpc, result,
                   tpc, running, tstate, gcount, gjobs, gdecide, rollupVars,
                   gprog, sideVars, bloom>>

\* normal_ref.steal() is Success(j) or Empty; on Empty the peers' stealers
\* are tried, they are all empty, the job is None and the worker breaks
WorkerStealNormal(w) ==
    /\ wpc[w] = "normal"
    /\ IF normal # <<>>
       THEN /\ normal' = Tail(normal)
            /\ BeginJob(w, Head(normal))
            /\ gdeq' = CountUp(gdeq, Head(normal))
            /\ gsaw' = [gsaw EXCEPT ![w] = FALSE]
       ELSE /\ wpc' = [wpc EXCEPT ![w] = "exit"]
            /\ UNCHANGED <<normal, wjob, wpos, wproc, wyield, lmap, gafter, errVars,
                           gdeq, gsaw, wring>>
    /\ UNCHANGED <<opt, env, cancel, active_threads, dir_yield_every, uring_batch,
                   high, inode_cache, visited_dirs, total_files, mpc, result,
                   tpc, running, tstate, gcount, gjobs, gdecide, rollupVars,
                   gprog, sideVars, bloom>>

\* a steal answers Retry whenever the injector holds a job, also with no
\* other worker stealing
WorkerStealRetrySpurious(w) ==
    /\ \/ wpc[w] = "high" /\ high # <<>>
       \/ wpc[w] = "normal" /\ normal # <<>>
    /\ wpc' = [wpc EXCEPT ![w] = "exit"]
    /\ UNCHANGED <<opt, env, cancel, active_threads, dir_yield_every, uring_batch,
                   high, normal, wjob, wpos, wproc, wyield, lmap, inode_cache,
                   visited_dirs, total_files, mpc, result, tpc, running, tstate,
                   gcount, gjobs, gdecide, gafter, rollupVars, errVars, gprog, restVars, bloom>>

\* Steal::Retry from either injector => None, and `let Some(..) = job else
\* { break; }`: the worker leaves its loop.  An injector answers Retry when
\* the steal loses the race for its head to another steal, so only when it
\* holds a job and another worker is stealing from it.
WorkerStealRetry(w) ==
    /\ \/ wpc[w] = "high" /\ high # <<>>
       \/ wpc[w] = "normal" /\ normal # <<>>
    /\ \E v \in Workers(opt) \ {w} : wpc[v] = wpc[w]
    /\ wpc' = [wpc EXCEPT ![w] = "exit"]
    /\ UNCHANGED <<opt, env, cancel, active_threads, dir_yield_every, uring_batch,
                   high, normal, wjob, wpos, wproc, wyield, lmap, inode_cache,
                   visited_dirs, total_files, mpc, result, tpc, running, tstate,
                   gcount, gjobs, gdecide, gafter, rollupVars, errVars, gprog, restVars, bloom>>

\* process_dir: the next directory entry, or the end of the directory.
\* d_off of the i-th entry is i; a resumed job continues after it.
WorkerProcEntry(w) ==
    /\ wpc[w] = "proc"
    /\ LET job  == wjob[w]
           es   == DirEntries(env, job.dir)
           i    == wpos[w] + 1
       IN
       IF i > Len(es) \/ job.dir \in env.dentsErr
       THEN \* getdents64 returns 0, or fails (nread <= 0): break, close(fd)
            /\ wpc' = [wpc EXCEPT ![w] = "top"]
            /\ UNCHANGED <<wpos, wproc, wyield, lmap, inode_cache, visited_dirs,
                           total_files, high, normal, gcount, gjobs, gdecide,
                           gprog, bloom>>
       ELSE
         LET eff  == FastEntry(opt, env, inode_cache, visited_dirs, bloom,
                               job.dir, job.depth, es[i])
             np   == wproc[w] + 1
             ny   == IF np % 4096 = 0 THEN dir_yield_every ELSE wyield[w]
             yld  == ~eff.cont /\ ny > 0 /\ np % ny = 0
             rjob == Job(job.dir, job.depth, <<i>>)
         IN
         /\ lmap' = IF eff.stat = <<>> THEN lmap
                    ELSE [lmap EXCEPT ![w] =
                            update_file_stats(@, job.dir, eff.stat[1][1], eff.stat[1][2])]
         /\ total_files' = IF eff.stat = <<>> THEN total_files
                           ELSE report_file_progress(opt, total_files)
         /\ gcount' = IF eff.stat = <<>> THEN gcount
                      ELSE [gcount EXCEPT ![Join(job.dir, es[i].name)] = @ + 1]
         /\ inode_cache' = eff.cache
         /\ visited_dirs' = eff.vset
         /\ bloom' = eff.bloom
         /\ gprog' = IF eff.stat = <<>> THEN gprog
                     ELSE gprog \o progress_calls(opt, total_files)
         /\ normal' = normal \o eff.push
         /\ gdecide' = gdecide \cup eff.decide
         /\ wpos' = [wpos EXCEPT ![w] = i]
         /\ wproc' = [wproc EXCEPT ![w] = IF eff.cont THEN @ ELSE np]
         /\ wyield' = [wyield EXCEPT ![w] = IF eff.cont THEN @ ELSE ny]
         /\ high' = IF yld THEN Append(high, rjob) ELSE high
         /\ gjobs' = gjobs \cup { eff.push[k] : k \in 1..Len(eff.push) }
                           \cup (IF yld THEN {rjob} ELSE {})
         /\ wpc' = [wpc EXCEPT ![w] = IF yld THEN "top" ELSE "proc"]
    /\ UNCHANGED <<opt, env, cancel, active_threads, dir_yield_every, uring_batch,
                   wjob, mpc, result, tpc, running, tstate, gafter, rollupVars,
                   errVars, restVars>>

-----------------------------------------------------------------------------
(* platform/linux_uring_impl.rs: process_with_ring inside a scan, on the    *)
(* worker threads that have a ring                                          *)

\* The re-scan at the end of process_with_ring, one entry: the (logical,
\* physical) counted for it, if any.  statx relative to the re-opened
\* directory, then symlink_metadata when statx gave no file to count.
FallbackEntry(o, e, dir, ent) ==
    LET child == Join(dir, ent.name)
        st    == StatTarget(o, e, ent)
    IN
    IF path_excluded(child, o) THEN << >>
    ELSE IF d_type(e, ent) = "DT_DIR" THEN << >>
    ELSE IF child \in e.nostat THEN << >>
    ELSE IF /\ st.kind = "S_IFREG" \/ (o.follow_links /\ st.kind = "S_IFLNK")
            /\ st.size >= o.min_file_size
         THEN << <<st.size, calculate_physical_size(o, st.size, st.blocks)>> >>
    ELSE IF ent.kind = "S_IFREG" /\ ent.size >= o.min_file_size
         THEN << <<ent.size, ent.size>> >>
    ELSE << >>

\* process_with_ring: the next directory entry with the completion of its
\* statx, or the end of the enumeration and of the final drain.  At the end
\* `if enq > 0 && stat_cur.files == files_before` starts the re-scan, which
\* opens the directory again and reads it from its first entry.
WorkerRingEntry(w) ==
    /\ wpc[w] = "ring"
    /\ LET job  == wjob[w]
           es   == DirEntries(env, job.dir)
           i    == wpos[w] + 1
       IN
       IF i > Len(es) \/ job.dir \in env.dentsErr
       THEN /\ IF wring[w].enq > 0 /\ lmap[w][job.dir].files = wring[w].files_before
               THEN /\ wpc' = [wpc EXCEPT ![w] = "rescan"]
                    /\ wpos' = [wpos EXCEPT ![w] = 0]
               ELSE /\ wpc' = [wpc EXCEPT ![w] = "top"]
                    /\ UNCHANGED wpos
            /\ UNCHANGED <<lmap, inode_cache, total_files, normal, gcount, gjobs,
                           gprog, wring>>
       ELSE
         \E inline \in BOOLEAN :
           LET eff == UringEntry(opt, env, inode_cache, job.dir, job.depth, es[i], inline)
           IN
           /\ lmap' = IF eff.stat = <<>> THEN lmap
                      ELSE [lmap EXCEPT ![w] =
                              update_file_stats(@, job.dir, eff.stat[1][1], eff.stat[1][2])]
           /\ total_files' = IF eff.stat = <<>> THEN total_files
                             ELSE report_file_progress(opt, total_files)
           /\ gcount' = IF eff.stat = <<>> THEN gcount
                        ELSE [gcount EXCEPT ![Join(job.dir, es[i].name)] = @ + 1]
           /\ inode_cache' = eff.cache
           /\ gprog' = IF eff.stat = <<>> THEN gprog
                       ELSE gprog \o progress_calls(opt, total_files)
           /\ normal' = normal \o eff.push
           /\ gjobs' = gjobs \cup { eff.push[k] : k \in 1..Len(eff.push) }
           /\ wpos' = [wpos EXCEPT ![w] = i]
           /\ wring' = [wring EXCEPT ![w].enq =
                          IF d_type(env, es[i]) = "DT_DIR" THEN @ ELSE @ + 1]
           /\ UNCHANGED wpc
    /\ UNCHANGED <<opt, env, cancel, active_threads, dir_yield_every, uring_batch,
                   high, wjob, wproc, wyield, visited_dirs, mpc, result, tpc, running,
                   tstate, gdecide, gafter, rollupVars, errVars, sideVars, fetchVars,
                   bloom>>

\* the re-scan of process_with_ring: the next entry of the re-opened
\* directory, or its end
WorkerRingRescan(w) ==
    /\ wpc[w] = "rescan"
    /\ LET job  == wjob[w]
           es   == DirEntries(env, job.dir)
           i    == wpos[w] + 1
       IN
       IF i > Len(es) \/ job.dir \in env.dentsErr
       THEN /\ wpc' = [wpc EXCEPT ![w] = "top"]
            /\ UNCHANGED <<wpos, lmap, total_files, gcount, gprog>>
       ELSE
         LET stat == FallbackEntry(opt, env, job.dir, es[i])
         IN
         /\ lmap' = IF stat = <<>> THEN lmap
                    ELSE [lmap EXCEPT ![w] =
                            update_file_stats(@, job.dir, stat[1][1], stat[1][2])]
         /\ total_files' = IF stat = <<>> THEN total_files
                           ELSE report_file_progress(opt, total_files)
         /\ gcount' = IF stat = <<>> THEN gcount
                      ELSE [gcount EXCEPT ![Join(job.dir, es[i].name)] = @ + 1]
         /\ gprog' = IF stat = <<>> THEN gprog
                     ELSE gprog \o progress_calls(opt, total_files)
         /\ wpos' = [wpos EXCEPT ![w] = i]
         /\ UNCHANGED wpc
    /\ UNCHANGED <<opt, env, cancel, active_threads, dir_yield_every, uring_batch,
                   high, normal, wjob, wproc, wyield, inode_cache, visited_dirs, mpc,
                   result, tpc, running, tstate, gjobs, gdecide, gafter, rollupVars,
                   errVars, sideVars, fetchVars, wring, bloom>>

-----------------------------------------------------------------------------
(* lib.rs: joining the workers, merging, rollup *)

RECURSIVE MergeMap(_, _, _)
\* for (k, v) in local: merged.entry(k).or_default() += v
MergeMap(merged, local, keys) ==
    IF keys = {} THEN merged
    ELSE Only({ MergeMap(AddTo(mg, k, local[k]), local, ks \ {k}) :
                    <<mg, ks, k>> \in { <<merged, keys, Only(keys)>> } })

\* merges the map of the first worker only
MergeAllFirstOnly(merged, maps, ws) ==
    IF ws = {} THEN merged
    ELSE Only({ MergeMap(mg, maps[w], DOMAIN maps[w]) :
                    <<mg, w>> \in { <<merged, CHOOSE x \in ws : \A y \in ws : x <= y>> } })

RECURSIVE MergeAll(_, _, _)
\* for h in handles: merge h.join(), in the order the workers were spawned
MergeAll(merged, maps, ws) ==
    IF ws = {} THEN merged
    ELSE Only({ MergeAll(MergeMap(mg, maps[w], DOMAIN maps[w]), maps, rest \ {w}) :
                    <<mg, rest, w>> \in { <<merged, ws, CHOOSE x \in ws : \A y \in ws : x <= y>> } })

\* every worker has left its loop: join them, merge their maps, roll up.
\* The TunerGuard is dropped when the function returns: it clears `running`
\* and joins the tuner thread.
MainJoin ==
    /\ mpc = "join"
    /\ \A w \in Workers(opt) : wpc[w] = "exit"
    /\ result' = rollup_child_to_parent(MergeAll(EmptyMap, lmap, Workers(opt)))
    /\ running' = FALSE
    /\ mpc' = IF tpc = "none" THEN "returned" ELSE "drop"
    /\ UNCHANGED <<opt, env, cancel, active_threads, dir_yield_every, uring_batch,
                   high, normal, wpc, wjob, wpos, wproc, wyield, lmap, inode_cache,
                   visited_dirs, total_files, tpc, tstate,
                   gcount, gjobs, gdecide, gafter, rollupVars, errVars, gprog, restVars, bloom>>

\* TunerGuard::drop: handle.join() returns once the tuner thread has ended
MainReturn ==
    /\ mpc = "drop"
    /\ tpc = "done"
    /\ mpc' = "returned"
    /\ UNCHANGED <<opt, env, cancel, active_threads, dir_yield_every, uring_batch,
                   high, normal, wpc, wjob, wpos, wproc, wyield, lmap, inode_cache,
                   visited_dirs, total_files, result, tpc, running, tstate,
                   gcount, gjobs, gdecide, gafter, rollupVars, errVars, gprog, restVars, bloom>>

\* the owner of the Options sets the cancel flag while the scan runs
SetCancel ==
    /\ mpc # "returned"
    /\ ~cancel
    /\ cancel' = TRUE
    /\ UNCHANGED <<opt, env, active_threads, dir_yield_every, uring_batch,
                   high, normal, wpc, wjob, wpos, wproc, wyield, lmap, inode_cache,
                   visited_dirs, total_files, mpc, result, tpc, running, tstate,
                   gcount, gjobs, gdecide, gafter, rollupVars, errVars, gprog, restVars, bloom>>

-----------------------------------------------------------------------------
(* tuning.rs: the tuner thread *)

\* if !running || cancel { break; }
TunerCheck ==
    /\ tpc = "check"
    /\ tpc' = IF ~running \/ cancel THEN "done" ELSE "tick"
    /\ UNCHANGED <<opt, env, cancel, active_threads, dir_yield_every, uring_batch,
                   high, normal, wpc, wjob, wpos, wproc, wyield, lmap, inode_cache,
                   visited_dirs, total_files, mpc, result, running, tstate,
                   gcount, gjobs, gdecide, gafter, rollupVars, errVars, gprog, restVars, bloom>>

Clamp(x, lo, hi) == IF x < lo THEN lo ELSE IF x > hi THEN hi ELSE x

\* One tick after the sleep.  The throughput fps = dn / dt is a real number
\* that depends on the elapsed time: the model keeps whether it is positive
\* and lets the comparison of two positive rates fall either way.  The
\* io_uring counters never move on the getdents64/statx backend, so dfail
\* and avg_wait_ms are 0.
TunerTick ==
    /\ tpc = "tick"
    /\ \E faster \in BOOLEAN :
        LET dn          == total_files - tstate.last_n
            fps_pos     == dn > 0
            improve     == tstate.best_fps_pos /\ fps_pos /\ faster
            dir1        == IF improve THEN tstate.dir ELSE 0 - tstate.dir
            next        == Clamp(tstate.idx + dir1, 0, Len(yield_steps) - 1)
            dfail       == 0
            avg_wait_gt2 == FALSE
            avg_wait_gt3 == FALSE
            batch       == IF dfail > 0 THEN Max(Max(uring_batch - 64, 0), 64)
                           ELSE IF avg_wait_gt2 THEN Max(Max(uring_batch - 32, 0), 64)
                           ELSE Min(uring_batch + 32, 4096)
            max_threads == Max(opt.threads, 1)
            active      == Clamp(active_threads, 1, max_threads)
            fps_improve == tstate.last_fps_pos /\ fps_pos /\ faster
        IN
        /\ dir_yield_every' = IF next # tstate.idx THEN yield_steps[next + 1]
                              ELSE dir_yield_every
        /\ uring_batch' = batch
        /\ active_threads' =
              IF dfail > 0 \/ avg_wait_gt3
              THEN (IF active > 1 THEN active - 1 ELSE active)
              ELSE IF fps_improve /\ active < max_threads THEN active + 1
              ELSE active
        /\ tstate' = [idx |-> next, dir |-> dir1, last_n |-> total_files,
                      last_fps_pos |-> fps_pos,
                      best_fps_pos |-> IF improve THEN fps_pos ELSE tstate.best_fps_pos]
    /\ tpc' = "check"
    /\ UNCHANGED <<opt, env, cancel, high, normal, wpc, wjob, wpos, wproc, wyield,
                   lmap, inode_cache, visited_dirs, total_files, mpc, result, running,
                   gcount, gjobs, gdecide, gafter, rollupVars, errVars, gprog, restVars, bloom>>

-----------------------------------------------------------------------------
(* The scan as a whole *)

Worker(w) ==
    \/ WorkerTop(w)
    \/ WorkerGate(w)
    \/ WorkerStealHigh(w)
    \/ WorkerStealNormal(w)
    \/ WorkerStealRetry(w)
    \/ WorkerProcEntry(w)

Next ==
    \/ \E w \in WorkerIds : Worker(w)
    \/ MainJoin
    \/ MainReturn
    \/ SetCancel
    \/ TunerCheck
    \/ TunerTick

Spec == Init /\ [][Next]_vars

\* The scans in which no steal ever answers Retry
WorkerNoRetry(w) ==
    \/ WorkerTop(w)
    \/ WorkerGate(w)
    \/ WorkerStealHigh(w)
    \/ WorkerStealNormal(w)
    \/ WorkerProcEntry(w)

NextNoRetry ==
    \/ \E w \in WorkerIds : WorkerNoRetry(w)
    \/ MainJoin
    \/ MainReturn
    \/ SetCancel
    \/ TunerCheck
    \/ TunerTick

SpecNoRetry == Init /\ [][NextNoRetry]_vars

\* The threads are scheduled fairly: a worker, the tuner or the caller that
\* can take a step eventually takes one.  Nothing obliges the owner of the
\* Options to set the cancel flag.
Fairness ==
    /\ \A w \in WorkerIds : WF_vars(Worker(w))
    /\ WF_vars(MainJoin)
    /\ WF_vars(MainReturn)
    /\ WF_vars(TunerCheck)
    /\ WF_vars(TunerTick)

\* the scans whose liveness is examined: a Options::default() scan with the
\* tuner, a built two-worker scan, a one-worker scan with progress and tuner
FairScenarios ==
    { <<[BaseOpt EXCEPT !.built = FALSE], TuneEnv>>,
      <<[BaseOpt EXCEPT !.max_depth = 1], BaseEnv>>,
      <<[BaseOpt EXCEPT !.yield0 = 2], BaseEnv>>,
      <<[OneOpt EXCEPT !.progress_every = 2], TuneEnv>> }

InitFair ==
    /\ \E s \in FairScenarios : InitScanWith(s[1], s[2])
    /\ FirstCall
    /\ RollupIdle
    /\ MultiIdle
    /\ BackendsIdle
    /\ TunerIdle
    /\ PipelineIdle
    /\ VisitIdle

FairSpec == InitFair /\ [][Next]_vars /\ Fairness

-----------------------------------------------------------------------------
(* The throttle: active_threads written while the scan runs *)

\* opt.active_threads.store(active) with some active in [1, threads]: the
\* tuner after a tick, or whoever else holds the Arc
SetActive ==
    /\ mpc = "join"
    /\ \E v \in 1..Max(opt.threads, 1) :
          /\ v # active_threads
          /\ active_threads' = v
    /\ UNCHANGED <<opt, env, cancel, dir_yield_every, uring_batch,
                   high, normal, wpc, wjob, wpos, wproc, wyield, lmap, inode_cache,
                   visited_dirs, total_files, mpc, result, tpc, running, tstate,
                   gcount, gjobs, gdecide, gafter, rollupVars, errVars, gprog, restVars, bloom>>

\* built two-worker scans, without and with yielding
ThrottleScenarios ==
    { <<BaseOpt, BaseEnv>>, <<[BaseOpt EXCEPT !.yield0 = 2], BaseEnv>> }

InitThrottle ==
    /\ \E s \in ThrottleScenarios : InitScanWith(s[1], s[2])
    /\ FirstCall
    /\ RollupIdle
    /\ MultiIdle
    /\ BackendsIdle
    /\ TunerIdle
    /\ PipelineIdle
    /\ VisitIdle

NextThrottle ==
    \/ \E w \in WorkerIds : WorkerNoRetry(w)
    \/ MainJoin
    \/ SetActive

\* the workers and the caller are scheduled fairly; nothing obliges anybody
\* to write active_threads
FairThrottle ==
    /\ \A w \in WorkerIds : WF_vars(WorkerNoRetry(w))
    /\ WF_vars(MainJoin)

\* scans nobody cancels, in which no steal answers Retry and active_threads
\* takes any value in [1, threads] at any time
SpecThrottle == InitThrottle /\ [][NextThrottle]_vars /\ FairThrottle

-----------------------------------------------------------------------------
(* Scans in which some worker threads have an io_uring ring and others,     *)
(* whose ring could not be created, fall back to the getdents64 backend     *)

MixedOpts ==
    { [BaseOpt EXCEPT !.yield0 = 1, !.min_file_size = s] : s \in {0, 2} }

\* one of the two threads has a ring
MixedScenarios ==
    { <<o, [BaseEnv EXCEPT !.rings = {w}]>> : o \in MixedOpts, w \in Workers(BaseOpt) }

InitMixed ==
    /\ \E s \in MixedScenarios : InitScanWith(s[1], s[2])
    /\ FirstCall
    /\ RollupIdle
    /\ MultiIdle
    /\ BackendsIdle
    /\ TunerIdle
    /\ PipelineIdle
    /\ VisitIdle

WorkerMixed(w) ==
    \/ WorkerNoRetry(w)
    \/ WorkerRingEntry(w)
    \/ WorkerRingRescan(w)

NextMixed ==
    \/ \E w \in WorkerIds : WorkerMixed(w)
    \/ MainJoin

\* scans nobody cancels or tunes, no steal answers Retry
SpecMixed == InitMixed /\ [][NextMixed]_vars

-----------------------------------------------------------------------------
(* The caller of scan_directory_with: a second call, with the same Options  *)
(* value or with another one; scans without tuner and cancellation          *)

\* the Options of the caller's second call
SecondOpt(o, ag) ==
    CASE ag.mode = "threads" -> [o EXCEPT !.threads = ag.threads]
      [] ag.mode = "add" ->
            [o EXCEPT !.exclude_contains = @ \cup ag.contains,
                      !.exclude_regex = @ \cup ag.regex,
                      !.exclude_glob = @ \cup ag.glob]
      [] OTHER -> o

\* The first call has returned and the caller calls scan_directory_with
\* again.  With mode "same" it passes the same Options value: opt.clone()
\* clones the Arcs, so the inode cache, the visit set, the Bloom filter, the
\* error counter and the live knobs are the ones the first scan left.  In
\* the other modes it passes a fresh Options value.
Rescan ==
    /\ mpc = "returned"
    /\ scan_no = 1
    /\ env.again.mode # "no"
    /\ LET o2   == SecondOpt(opt, env.again)
           keep == env.again.mode = "same"
       IN
       /\ opt' = o2
       /\ inode_cache' = IF keep THEN inode_cache ELSE {}
       /\ visited_dirs' = IF keep THEN visited_dirs ELSE {}
       /\ bloom' = IF keep THEN bloom ELSE {}
       /\ error_count' = IF keep THEN error_count ELSE 0
       /\ gerr' = IF keep THEN gerr ELSE 0
       /\ active_threads' = IF keep THEN active_threads
                            ELSE IF o2.built THEN Max(o2.threads, 1) ELSE 0
       /\ dir_yield_every' = IF keep THEN dir_yield_every ELSE o2.yield0
       /\ wpc' = [w \in WorkerIds |-> IF w \in Workers(o2) THEN "top" ELSE "none"]
    /\ scan_no' = 2
    /\ result1' = result
    /\ result' = EmptyMap
    /\ high' = << Job(Root, 0, <<>>) >>
    /\ normal' = << >>
    /\ wjob' = [w \in WorkerIds |-> NoJob]
    /\ wpos' = [w \in WorkerIds |-> 0]
    /\ wproc' = [w \in WorkerIds |-> 0]
    /\ wyield' = [w \in WorkerIds |-> 0]
    /\ lmap' = [w \in WorkerIds |-> EmptyMap]
    /\ total_files' = 0
    /\ mpc' = "join"
    /\ gcount' = [c \in AllChildren(env) |-> 0]
    /\ gjobs' = { Job(Root, 0, <<>>) }
    /\ gdecide' = {}
    /\ gafter' = [w \in WorkerIds |-> 0]
    /\ gprog' = << >>
    /\ gdeq' = NoneTaken
    /\ gsaw' = [w \in WorkerIds |-> FALSE]
    /\ wring' = [w \in WorkerIds |-> NoRingLocals]
    /\ UNCHANGED <<env, cancel, uring_batch, tpc, running, tstate, rollupVars,
                   multiVars, bk, tn, ur, vb>>

LinksEnv == [BaseEnv EXCEPT !.links = TRUE]

FollowOpt == [OneOpt EXCEPT !.follow_links = TRUE]

\* scans of the tree with the symbolic link cycle /r/d/l -> /r, links
\* followed: without a visit set (as Options::default() has none), with
\* one, with one and its Bloom filter, and on a file system without d_type
LinkScenarios ==
    { <<FollowOpt, LinksEnv>>,
      <<[FollowOpt EXCEPT !.visited_dirs = TRUE], LinksEnv>>,
      <<[FollowOpt EXCEPT !.visited_dirs = TRUE, !.visited_bloom = TRUE], LinksEnv>>,
      <<[FollowOpt EXCEPT !.threads = 2], [LinksEnv EXCEPT !.dtKnown = FALSE]>>,
      <<OneOpt, LinksEnv>> }

SameAgain == [Once EXCEPT !.mode = "same"]

\* the caller scans twice with one Options value: without caches, with an
\* inode cache, with a visit set, with a visit set and its Bloom filter
TwiceScenarios ==
    { <<OneOpt, [BaseEnv EXCEPT !.again = SameAgain]>>,
      <<[OneOpt EXCEPT !.inode_cache = TRUE], [BaseEnv EXCEPT !.again = SameAgain]>>,
      <<[FollowOpt EXCEPT !.visited_dirs = TRUE], [BaseEnv EXCEPT !.again = SameAgain]>>,
      <<[FollowOpt EXCEPT !.visited_dirs = TRUE, !.visited_bloom = TRUE],
        [BaseEnv EXCEPT !.again = SameAgain]>> }

TwoThreadsAgain == [Once EXCEPT !.mode = "threads", !.threads = 2]

\* the caller scans with one worker, then with two workers and fresh
\* Options: without dedup, with an inode cache, and with an inode cache on
\* the tree where /r/d/b and /r/m/x are links of one inode
ThreadScenarios ==
    { <<OneOpt, [BaseEnv EXCEPT !.again = TwoThreadsAgain]>>,
      <<[OneOpt EXCEPT !.inode_cache = TRUE], [BaseEnv EXCEPT !.again = TwoThreadsAgain]>>,
      <<[OneOpt EXCEPT !.inode_cache = TRUE],
        [BaseEnv EXCEPT !.xlink = TRUE, !.again = TwoThreadsAgain]>> }

\* /r/d cannot be opened (EACCES): one worker without reporter, two
\* workers with a reporter; and a root that exists and cannot be opened
OpenErrorScenarios ==
    { <<OneOpt, [BaseEnv EXCEPT !.noopen = {<<"/", "r", "d">>}]>>,
      <<[OneOpt EXCEPT !.threads = 2, !.error_report = TRUE],
        [BaseEnv EXCEPT !.noopen = {<<"/", "r", "d">>}]>>,
      <<[OneOpt EXCEPT !.error_report = TRUE], [BaseEnv EXCEPT !.noopen = {Root}]>> }

\* statx and the symlink_metadata fallback fail on /r/d/b (with and without
\* d_type); getdents64 on /r/d returns an error
EntryErrorScenarios ==
    { <<[OneOpt EXCEPT !.error_report = TRUE],
        [BaseEnv EXCEPT !.nostat = {<<"/", "r", "d", "b">>}]>>,
      <<[OneOpt EXCEPT !.threads = 2],
        [BaseEnv EXCEPT !.nostat = {<<"/", "r", "d", "b">>}, !.dtKnown = FALSE]>>,
      <<[OneOpt EXCEPT !.error_report = TRUE],
        [BaseEnv EXCEPT !.dentsErr = {<<"/", "r", "d">>}]>> }

AddPattern(c, r, g) ==
    [Once EXCEPT !.mode = "add", !.contains = c, !.regex = r, !.glob = g]

\* the caller scans, adds a pattern to one filter layer of a fresh Options
\* value and scans again: a substring with a path separator next to a glob
\* (the backend leaves the name-only fast path), a glob, a regex next to a
\* regex, a pattern RegexSet::new rejects next to a regex, and a substring
\* that excludes one link of a deduplicated inode
AddScenarios ==
    { <<[OneOpt EXCEPT !.exclude_glob = { GlobUnderD }],
        [BaseEnv EXCEPT !.again = AddPattern({ <<"d", "/", "b">> }, {}, {})]>>,
      <<OneOpt, [BaseEnv EXCEPT !.again = AddPattern({}, {}, { GlobUnderD })]>>,
      <<[OneOpt EXCEPT !.exclude_regex = { RegexNameC }],
        [BaseEnv EXCEPT !.again = AddPattern({}, { RegexPathB }, {})]>>,
      <<[OneOpt EXCEPT !.exclude_regex = { RegexNameC }],
        [BaseEnv EXCEPT !.again = AddPattern({}, { RegexInvalid }, {})]>>,
      <<[OneOpt EXCEPT !.inode_cache = TRUE],
        [BaseEnv EXCEPT !.again = AddPattern({ <<"a">> }, {}, {})]>> }

PlainScenarios ==
    TwiceScenarios \cup ThreadScenarios \cup OpenErrorScenarios
        \cup EntryErrorScenarios \cup AddScenarios

InitPlain ==
    /\ \E s \in PlainScenarios : InitScanWith(s[1], s[2])
    /\ FirstCall
    /\ RollupIdle
    /\ MultiIdle
    /\ BackendsIdle
    /\ TunerIdle
    /\ PipelineIdle
    /\ VisitIdle

NextPlain ==
    \/ \E w \in WorkerIds : WorkerNoRetry(w)
    \/ MainJoin
    \/ Rescan

\* the scans nobody cancels or tunes, in which no steal answers Retry
SpecPlain == InitPlain /\ [][NextPlain]_vars

InitLinks ==
    /\ \E s \in LinkScenarios : InitScanWith(s[1], s[2])
    /\ FirstCall
    /\ RollupIdle
    /\ MultiIdle
    /\ BackendsIdle
    /\ TunerIdle
    /\ PipelineIdle
    /\ VisitIdle

NextLinks ==
    \/ \E w \in WorkerIds : WorkerNoRetry(w)
    \/ MainJoin

\* one scan of the tree with the symbolic link cycle
SpecLinks == InitLinks /\ [][NextLinks]_vars

-----------------------------------------------------------------------------
(* What a scan is meant to count *)

\* depth of a path below the scan root (the root has depth 0)
DepthBelowRoot(p) == Len(p) - Len(Root)

\* matched by one of the three filter layers, by name or by full path
FilterMatched(p, o) == name_matches(Bytes(p[Len(p)]), o) \/ path_excluded(p, o)

RECURSIVE ShouldEnumerate(_, _, _)
\* the directory is the root or a child directory that no filter matches,
\* within max_depth, on its parent's device under one_file_system, and whose
\* parent is enumerated
ShouldEnumerate(o, e, dir) ==
    IF dir = Root THEN TRUE
    ELSE LET par == SubSeq(dir, 1, Len(dir) - 1)
         IN  /\ ShouldEnumerate(o, e, par)
             /\ ~FilterMatched(dir, o)
             /\ (o.max_depth = 0 \/ DepthBelowRoot(dir) <= o.max_depth)
             /\ (o.one_file_system => EntryOf(e, dir).dev = DirDev(e, par))

Files(e) == { c \in AllChildren(e) : EntryOf(e, c).kind = "S_IFREG" }

\* the regular files a scan should consider: in an enumerated directory,
\* matched by no filter, at least min_file_size long
Eligible(o, e) ==
    { c \in Files(e) :
        /\ ShouldEnumerate(o, e, SubSeq(c, 1, Len(c) - 1))
        /\ ~FilterMatched(c, o)
        /\ (o.one_file_system => EntryOf(e, c).dev = DirDev(e, SubSeq(c, 1, Len(c) - 1)))
        /\ EntryOf(e, c).size >= o.min_file_size }

DedupOn(o) == ~o.count_hardlinks /\ o.inode_cache

InodeOf(e, c) == <<EntryOf(e, c).dev, EntryOf(e, c).ino>>

\* the number of counted entries: with dedup one per (dev, ino)
ExpectedFiles(o, e) ==
    IF DedupOn(o) THEN Cardinality({ InodeOf(e, c) : c \in Eligible(o, e) })
    ELSE Cardinality(Eligible(o, e))

\* k lies strictly below p
Descends(p, k) == Len(k) > Len(p) /\ SubSeq(k, 1, Len(p)) = p

RootFiles(m) == IF Root \in DOMAIN m THEN m[Root].files ELSE 0

\* C1: when a scan of a static tree returns and cancel was never set, the
\* root's `files` equals the number of counted entries (entries passing every
\* filter layer, of size >= min_file_size, first occurrence of their
\* (dev, ino) when dedup is on), for every worker count and interleaving.
C1_RootFilesEqualsCounted ==
    (mpc = "returned" /\ ~cancel) => RootFiles(result) = ExpectedFiles(opt, env)

\* C3: with cancel never set, scan_directory_with eventually returns: every
\* worker leaves its loop and is joined, also the workers whose index is
\* >= active_threads, whatever the tuner writes to active_threads.
C3_ScanEventuallyReturns == <>(cancel \/ mpc = "returned")

\* C4: in every state of a scan, whether the Options came from
\* OptionsBuilder::build or from Options::default(), active_threads is
\* within [1, threads], so worker 0 is never throttled.
C4_ActiveThreadsInRange ==
    mpc \in {"join", "drop", "returned"} =>
        /\ active_threads >= 1
        /\ active_threads <= Max(opt.threads, 1)

-----------------------------------------------------------------------------
(* Cancellation *)

Exited == \A w \in Workers(opt) : wpc[w] = "exit"

\* C5: once the cancel flag is set every worker, running, idle or throttled,
\* leaves its loop after at most the process_dir call of the loop iteration
\* it is in (a worker begins at most one call while the flag is set, and a
\* worker at the top of its loop with the flag set goes nowhere but out, and
\* stays out), the tuner thread ends and scan_directory_with returns.
C5_CancelStopsScan ==
    /\ [](\A w \in WorkerIds : gafter[w] <= 1)
    /\ [][\A w \in WorkerIds :
            /\ (cancel /\ wpc[w] = "top") => wpc'[w] \in {"top", "exit"}
            /\ (wpc[w] = "exit") => wpc'[w] = "exit"]_vars
    /\ cancel ~> (mpc = "returned" /\ Exited /\ tpc \in {"none", "done"})

\* a cancelled scan has returned: a throttled worker left its loop, a running
\* worker finished the call it began after the flag was set, the tuner ended
C5_Witness ==
    /\ cancel
    /\ mpc = "returned"
    /\ tpc = "done"
    /\ \E w \in Workers(opt) : w >= active_threads /\ wpc[w] = "exit"
    /\ \E w \in Workers(opt) : gafter[w] = 1

\* the Stat one counted entry adds to its directory
CountedStat(o, e, c) ==
    IF ~o.compute_physical /\ o.approximate_sizes /\ o.min_file_size = 0
       /\ d_type(e, EntryOf(e, c)) = "DT_REG"
    THEN [logical |-> 4096, physical |-> 4096, files |-> 1]
    ELSE [logical |-> EntryOf(e, c).size,
          physical |-> calculate_physical_size(o, EntryOf(e, c).size, EntryOf(e, c).blocks),
          files |-> 1]

RECURSIVE SumCounted(_, _, _)
SumCounted(o, e, cs) ==
    IF cs = {} THEN ZeroStat
    ELSE LET c == CHOOSE x \in cs : TRUE
         IN  AddStat(CountedStat(o, e, c), SumCounted(o, e, cs \ {c}))

\* the entries counted so far in the directory p or below it
CountedUnder(e, p) ==
    { c \in AllChildren(e) : gcount[c] > 0 /\ Descends(p, c) }

\* C6: when cancel was set during the scan, the map returned is the merge of
\* the workers' partial maps rolled up: no entry was counted twice, and the
\* totals of every key are the sum of what was counted directly in it and in
\* the directories below it that were processed.
C6_CancelledResultIsPartialAggregate ==
    (mpc = "returned" /\ cancel) =>
        /\ \A c \in AllChildren(env) : gcount[c] <= 1
        /\ \A p \in DOMAIN result :
              result[p] = SumCounted(opt, env, CountedUnder(env, p))
        /\ \A w \in Workers(opt) : DOMAIN lmap[w] \subseteq DOMAIN result

\* a cancelled scan returned a partial result: some but not all files were
\* counted, in several directories
C6_Witness ==
    /\ mpc = "returned"
    /\ cancel
    /\ RootFiles(result) >= 2
    /\ \E c \in Eligible(opt, env) : gcount[c] = 0
    /\ Cardinality(DOMAIN result) >= 3

-----------------------------------------------------------------------------
(* Hardlinks, filters, depth, devices *)

\* the links of the inode of c among the regular files of the tree
LinksOf(e, c) == { x \in Files(e) : InodeOf(e, x) = InodeOf(e, c) }

RECURSIVE CountSum(_)
CountSum(cs) ==
    IF cs = {} THEN 0
    ELSE LET c == CHOOSE x \in cs : TRUE IN gcount[c] + CountSum(cs \ {c})

\* C7: with dedup on, among the files sharing one (dev, ino) never more than
\* one is counted, and exactly one once the scan has returned uncancelled;
\* with dedup off every link is counted.
C7_OneCountPerInode ==
    /\ DedupOn(opt) => \A c \in Files(env) : CountSum(LinksOf(env, c)) <= 1
    /\ (mpc = "returned" /\ ~cancel) =>
          \A c \in Eligible(opt, env) :
              IF DedupOn(opt) THEN CountSum(LinksOf(env, c)) = 1 ELSE gcount[c] = 1

\* a directory on which process_dir ran
Descended(dir) == \E w \in WorkerIds : dir \in DOMAIN lmap[w]

\* C8: an entry whose name or full path is matched by the substring, regex or
\* glob layer is never counted and, if a directory, never descended into.
C8_FilteredNeverCounted ==
    \A c \in AllChildren(env) :
        FilterMatched(c, opt) => (gcount[c] = 0 /\ ~Descended(c))

\* C9: with max_depth = m > 0 a directory at depth d is enumerated iff
\* d <= m: a child directory is refused for its depth exactly when it lies
\* deeper than m, every job ever enqueued has the depth of its directory and
\* that depth is <= m (resume jobs too), no directory deeper than m is
\* enumerated and no file in one is counted, and once an uncancelled scan
\* has drained the queues every directory within m was enumerated; with
\* max_depth = 0 no directory is refused for its depth.
C9_MaxDepth ==
    /\ \A j \in gjobs : j.depth = DepthBelowRoot(j.dir)
    /\ \A r \in gdecide :
          (r.why = "depth") <=> (opt.max_depth > 0 /\ DepthBelowRoot(r.child) > opt.max_depth)
    /\ opt.max_depth > 0 =>
          /\ \A j \in gjobs : j.depth <= opt.max_depth
          /\ \A d \in AllDirs : Descended(d) => DepthBelowRoot(d) <= opt.max_depth
          /\ \A c \in AllChildren(env) :
                gcount[c] > 0 => DepthBelowRoot(c) - 1 <= opt.max_depth
    /\ (mpc = "returned" /\ ~cancel /\ high = <<>> /\ normal = <<>>
        /\ ~opt.one_file_system) =>
          \A d \in AllDirs : ShouldEnumerate(opt, env, d) => Descended(d)

\* max_depth = 1: the grandchild directory was refused, a resume job of the
\* depth-1 directory was enqueued and a file of that directory counted
C9_Witness ==
    /\ opt.max_depth = 1
    /\ \E r \in gdecide : r.why = "depth" /\ r.child = <<"/", "r", "d", "e">>
    /\ \E j \in gjobs : j.resume # <<>> /\ j.depth = 1
    /\ gcount[<<"/", "r", "d", "b">>] = 1
    /\ mpc = "returned"

\* C10: with one_file_system a child directory is enqueued iff its device is
\* the device of the directory being enumerated, and no entry on another
\* device than the root's is counted, however the directory is discovered.
C10_OneFileSystem ==
    opt.one_file_system =>
        /\ \A r \in gdecide :
              r.why # "depth" =>
                 (r.enq <=> EntryOf(env, r.child).dev
                              = DirDev(env, SubSeq(r.child, 1, Len(r.child) - 1)))
        /\ \A c \in AllChildren(env) :
              gcount[c] > 0 => EntryOf(env, c).dev = RootDev(env)

-----------------------------------------------------------------------------
(* Symbolic links *)

\* the path p goes through one symbolic link more than once
LinkRepeated(e, p) ==
    \E n1, n2 \in (Len(Root) + 1)..Len(p) :
        /\ n1 < n2
        /\ EntryOf(e, SubSeq(p, 1, n1)).kind = "S_IFLNK"
        /\ EntryOf(e, SubSeq(p, 1, n2)).kind = "S_IFLNK"
        /\ EntryOf(e, SubSeq(p, 1, n1)).ino = EntryOf(e, SubSeq(p, 1, n2)).ino

-----------------------------------------------------------------------------
(* Two calls *)

\* the second call of the caller has returned
SecondReturned == mpc = "returned" /\ scan_no = 2

\* C12: scanning the same unmodified tree twice with the same Options value
\* returns identical maps, whether or not the Options carries an inode
\* cache, a visit set or a Bloom filter.
C12_SameOptionsSameMap ==
    (SecondReturned /\ env.again.mode = "same") => result = result1

\* the caller's two calls differ in the thread count only
ThreadsCompared == SecondReturned /\ env.again.mode = "threads"

Undivided(e, k) ==
    \A c \in Files(e) : \A x \in LinksOf(e, c) : Descends(k, c) <=> Descends(k, x)

C19_AddedPatternNeverIncreases ==
    (SecondReturned /\ env.again.mode = "add") =>
        \A k \in DOMAIN result :
            /\ k \in DOMAIN result1
            /\ result[k].files <= result1[k].files
            /\ result[k].logical <= result1[k].logical
            /\ result[k].physical <= result1[k].physical

-----------------------------------------------------------------------------
(* Leaving the worker loop *)

\* C20: a worker leaves its loop, other than by cancellation, only after it
\* has observed every source as Empty in one iteration, and a Steal::Retry
\* never makes it exit.  The local deque and the other workers' stealers
\* are always empty (nothing is pushed to a local deque) and the high
\* injector answered Empty when the worker went on to the normal one, so:
\* a worker at a steal exits only from the steal of the normal injector,
\* and only when that injector is empty.
C20_ExitOnlyAfterEmpty ==
    [][\A w \in WorkerIds :
          (wpc[w] \in {"high", "normal"} /\ wpc'[w] = "exit") =>
              (wpc[w] = "normal" /\ normal = << >>)]_vars

-----------------------------------------------------------------------------
(* Progress *)

\* the number of calls of the progress callback with the value n
ProgressCallsWith(n) == Cardinality({ i \in DOMAIN gprog : gprog[i] = n })

\* C17: with progress_every = P > 0 the progress callback is invoked
\* exactly once with k*P for every k >= 1 with k*P <= the number of counted
\* files, under any interleaving of the workers, and never with another
\* value.
C17_ProgressOncePerMultiple ==
    opt.progress_every > 0 =>
        /\ total_files = CountSum(DOMAIN gcount)
        /\ \A n \in 1..Cardinality(DOMAIN gcount) :
              ProgressCallsWith(n) =
                  IF n % opt.progress_every = 0 /\ n <= total_files THEN 1 ELSE 0
        /\ \A i \in DOMAIN gprog : gprog[i] \in 1..Cardinality(DOMAIN gcount)

\* two workers counted four files with progress_every = 2: the callback
\* saw 2 and 4
C17_Witness ==
    /\ opt.progress_every = 2
    /\ opt.threads = 2
    /\ total_files = 4
    /\ gprog = << 2, 4 >>

-----------------------------------------------------------------------------
(* Errors *)

\* the jobs whose directory cannot be opened
UnopenedJobs == { j \in gjobs : j.dir \in env.noopen }

\* C15: when a directory cannot be opened during a scan, error_count
\* increases by exactly one and the reporter, if configured, is invoked
\* exactly once; the directory contributes no statistics and enqueues
\* nothing; every other queued directory is still processed, and the scan
\* returns.
C15_OpenFailureIsSkipped ==
    (mpc = "returned" /\ env.noopen # {}) =>
        /\ error_count = Cardinality(UnopenedJobs)
        /\ gerr = IF opt.error_report THEN error_count ELSE 0
        /\ \A j \in UnopenedJobs :
              /\ j.dir \notin DOMAIN result
              /\ \A c \in AllChildren(env) : Descends(j.dir, c) => gcount[c] = 0
              /\ \A k \in gjobs : ~Descends(j.dir, k.dir)
        /\ \A j \in gjobs \ UnopenedJobs :
              /\ j.dir \in DOMAIN result
              /\ \A c \in Files(env) :
                    SubSeq(c, 1, Len(c) - 1) = j.dir => gcount[c] = 1

\* a scan with a reporter returned after /r/d could not be opened: one
\* error, one report, /r/m counted
C15_Witness ==
    /\ mpc = "returned"
    /\ env.noopen = {<<"/", "r", "d">>}
    /\ opt.error_report
    /\ error_count = 1
    /\ gerr = 1
    /\ <<"/", "r", "m">> \in DOMAIN result
    /\ <<"/", "r", "d">> \notin DOMAIN result

\* the failures a scan met: entries whose stat failed in a directory it
\* enumerated, and directories whose getdents64 failed
EntryFailures ==
    { c \in env.nostat : \E j \in gjobs : j.dir = SubSeq(c, 1, Len(c) - 1) }
        \cup { j.dir : j \in { k \in gjobs : k.dir \in env.dentsErr } }

\* C16: when the stat of a single entry fails (statx and the
\* symlink-metadata fallback) or a getdents64 call returns an error, the
\* failure is recorded (error_count incremented, reporter invoked), only
\* the affected entry is skipped and the enumeration continues: the other
\* files of the directory are counted.
C16_EntryFailureRecorded ==
    (mpc = "returned" /\ (env.nostat # {} \/ env.dentsErr # {})) =>
        /\ error_count = Cardinality(EntryFailures)
        /\ gerr = IF opt.error_report THEN error_count ELSE 0
        /\ \A c \in env.nostat : gcount[c] = 0
        /\ \A c \in Files(env) \ env.nostat :
              (/\ \E j \in gjobs : j.dir = SubSeq(c, 1, Len(c) - 1)
               /\ SubSeq(c, 1, Len(c) - 1) \notin env.dentsErr) => gcount[c] = 1

C23_NormalOnlyWhileHighEmpty ==
    [][Len(normal') < Len(normal) => high = << >>]_vars

\* C23: a worker takes a job from the normal injector only after it has
\* observed the high injector empty in the same iteration of its loop (own
\* deque, then high, then normal); a continuation pushed after that
\* observation may be overtaken by that one fetch.
C23_NormalOnlyAfterHighSeenEmpty ==
    [][\A w \in WorkerIds :
          (Len(normal') < Len(normal) /\ wpc'[w] # wpc[w]) => gsaw[w]]_vars

\* a worker that saw the high injector empty is about to steal from the
\* normal injector while a continuation pushed since waits in the high one
C23_Witness ==
    /\ high # << >>
    /\ normal # << >>
    /\ \E w \in Workers(opt) : wpc[w] = "normal" /\ gsaw[w]

\* the number of entries the process_dir call of worker w has read so far
\* from its directory: those between the resume offset and the last d_off
Consumed(w) ==
    wpos[w] - (IF wjob[w].resume = << >> THEN 0 ELSE wjob[w].resume[1])

\* C24: on the getdents64 backend with dir_yield_every = N > 0 a single
\* process_dir call consumes at most N entries of its directory before it
\* pushes the continuation and returns.
C24_CallConsumesAtMostN ==
    \A w \in Workers(opt) :
        (wjob[w] # NoJob /\ wyield[w] > 0) => Consumed(w) <= wyield[w]

\* the next step of worker w inside process_dir is a getdents64 call: the
\* buffer of the previous one is used up, or the directory has no entry left
IssuesRead(w) ==
    /\ wpc[w] = "proc"
    /\ \/ Consumed(w) % DentsBuf = 0
       \/ wpos[w] >= Len(DirEntries(env, wjob[w].dir))

\* C26: once the cancel flag is set, a worker in the middle of a directory
\* stops before it issues its next directory read for that directory.
C26_NoReadAfterCancel ==
    [][\A w \in WorkerIds :
          (cancel /\ IssuesRead(w)) => (wpos'[w] = wpos[w] /\ wpc'[w] = wpc[w])]_vars

\* the directories a continuation was pushed for
SplitDirs == { j.dir : j \in { k \in gjobs : k.resume # << >> } }

\* C25: for a directory that is split by yielding, the chain of jobs
\* (dir, None), (dir, c1), (dir, c2), ... covers its entries exactly once,
\* whichever workers and whichever backend run the continuations: no file
\* of it is counted twice, and when the scan has returned every regular
\* file of it that is large enough has been counted.
C25_SplitDirectoryCoveredOnce ==
    \A c \in DOMAIN gcount :
        SubSeq(c, 1, Len(c) - 1) \in SplitDirs =>
            /\ gcount[c] <= 1
            /\ (/\ mpc = "returned"
                /\ EntryOf(env, c).kind = "S_IFREG"
                /\ EntryOf(env, c).size >= opt.min_file_size) => gcount[c] = 1

\* the jobs a scan of the tree can push
JobSpace ==
    { Job(d, Len(d) - Len(Root), r) :
        d \in AllDirs, r \in { << >> } \cup { <<i>> : i \in 1..3 } }

InQueue(j) ==
    \/ \E i \in 1..Len(high) : high[i] = j
    \/ \E i \in 1..Len(normal) : normal[i] = j

\* C21: throttling never strands work: whatever values in [1, threads] are
\* written to active_threads during a scan that is not cancelled, under fair
\* scheduling every job that is in an injector is eventually dequeued by
\* some worker, even if other workers exited earlier on empty queues.
C21_QueuedJobEventuallyDequeued ==
    \A j \in JobSpace : InQueue(j) ~> ~InQueue(j)

-----------------------------------------------------------------------------
(* rollup_child_to_parent on its own, applied to arbitrary maps *)

RollupPaths ==
    { <<"/">>, <<"/", "a">>, <<"/", "a", "b">>, <<"/", "a", "b", "c">>, <<"/", "a", "d">> }

RollupStats ==
    { [logical |-> 1, physical |-> 512, files |-> 1],
      [logical |-> 6, physical |-> 1024, files |-> 2] }

\* every map whose keys are among RollupPaths
RollupInputs == UNION { [K -> RollupStats] : K \in SUBSET RollupPaths }

\* values of the variables of scan_directory_with while no scan runs
ScanQuiet ==
    /\ opt = BaseOpt
    /\ env = BaseEnv
    /\ cancel = FALSE
    /\ active_threads = Max(BaseOpt.threads, 1)
    /\ dir_yield_every = 0
    /\ uring_batch = BaseEnv.statx_batch
    /\ high = << >>
    /\ normal = << >>
    /\ wpc = [w \in WorkerIds |-> "none"]
    /\ wjob = [w \in WorkerIds |-> NoJob]
    /\ wpos = [w \in WorkerIds |-> 0]
    /\ wproc = [w \in WorkerIds |-> 0]
    /\ wyield = [w \in WorkerIds |-> 0]
    /\ lmap = [w \in WorkerIds |-> EmptyMap]
    /\ total_files = 0
    /\ mpc = "none"
    /\ result = EmptyMap
    /\ tpc = "none"
    /\ running = FALSE
    /\ tstate = [idx |-> 0, dir |-> 1, last_n |-> 0,
                 last_fps_pos |-> FALSE, best_fps_pos |-> FALSE]
    /\ gcount = [c \in AllChildren(BaseEnv) |-> 0]
    /\ gjobs = {}
    /\ gdecide = {}
    /\ gafter = [w \in WorkerIds |-> 0]
    /\ gprog = << >>
    /\ gdeq = NoneTaken
    /\ gsaw = [w \in WorkerIds |-> FALSE]
    /\ wring = [w \in WorkerIds |-> NoRingLocals]
    /\ FirstCall

ScanIdle ==
    ScanQuiet /\ MultiIdle /\ BackendsIdle /\ TunerIdle /\ PipelineIdle /\ VisitIdle

InitRollup ==
    /\ ScanIdle
    /\ rin \in RollupInputs
    /\ rout = EmptyMap
    /\ rpc = "start"

RollupCall ==
    /\ rpc = "start"
    /\ rout' = rollup_child_to_parent(rin)
    /\ rpc' = "done"
    /\ UNCHANGED <<rin, scanVars, errVars, gprog, restVars, bloom>>

NextRollup == RollupCall

SpecRollup == InitRollup /\ [][NextRollup]_vars

RECURSIVE SumStats(_, _)
SumStats(m, ks) ==
    IF ks = {} THEN ZeroStat
    ELSE LET k == CHOOSE x \in ks : TRUE
         IN  AddStat(m[k], SumStats(m, ks \ {k}))

\* the value of the input at p plus the input values of all keys below p
SubtreeSum(m, p) ==
    AddStat(IF p \in DOMAIN m THEN m[p] ELSE ZeroStat,
            SumStats(m, { k \in DOMAIN m : Descends(p, k) }))

\* C2: for every input map, each output entry p equals the input value at p
\* plus the sum of the input values of all keys that are proper descendants
\* of p, also when a directory between two keys has no key of its own.
C2_RollupSumsAllDescendants ==
    rpc = "done" => \A p \in DOMAIN rout : rout[p] = SubtreeSum(rin, p)

\* every key but one has its parent among the keys (the maps a scan merges
\* have this shape: a directory is enqueued by the call that created the
\* entry of its parent)
ParentClosed(m) ==
    Cardinality({ k \in DOMAIN m : parent(k) = <<>> \/ parent(k)[1] \notin DOMAIN m }) <= 1

\* a rollup was applied to a map in which a directory between keys is missing
C2_GapInput == rpc = "done" /\ ~ParentClosed(rin)

-----------------------------------------------------------------------------
(* scanner.rs: parallel_scan, several roots scanned by rayon tasks.  Every  *)
(* root is a directory of its own holding `files` files of one byte; the    *)
(* split of opt.threads among the tasks changes the worker count of each    *)
(* scan, not what the call does with the results.                           *)

RootNames == << "r1", "r2", "r3", "r4" >>

RootKey(i) == << "/", RootNames[i] >>

\* what scan_directory_with returns for an existing root: its leaf map
\* rolled up
RootMap(i, files) ==
    rollup_child_to_parent(
        AddTo(EmptyMap, RootKey(i),
              [logical |-> files, physical |-> 512 * files, files |-> files]))

\* the calls parallel_scan(roots, opt): some roots do not exist
MultiInputs ==
    UNION { [1..n -> [exists : BOOLEAN, files : {1, 2}]] : n \in 1..MaxRoots }

InitMulti ==
    /\ ScanQuiet
    /\ RollupIdle
    /\ BackendsIdle
    /\ TunerIdle
    /\ PipelineIdle
    /\ VisitIdle
    /\ \E rs \in MultiInputs :
          proots = [i \in DOMAIN rs |->
                      [exists |-> rs[i].exists, files |-> rs[i].files,
                       st |-> "pending", map |-> EmptyMap]]
    /\ pres = [kind |-> "none", map |-> EmptyMap]

\* one rayon task maps a root: scan_directory_with returns Err when the
\* root does not exist and the map otherwise
ParScanRoot(i) ==
    /\ pres.kind = "none"
    /\ proots[i].st = "pending"
    /\ proots' = [proots EXCEPT
                    ![i].st = IF proots[i].exists THEN "ok" ELSE "err",
                    ![i].map = IF proots[i].exists THEN RootMap(i, proots[i].files)
                               ELSE EmptyMap]
    /\ UNCHANGED <<scanVars, rollupVars, errVars, gprog, callerVars, pres, bk, bloom,
                   fetchVars, wring, tn, ur, vb>>

\* try_reduce is told of an Err: items not yet started need not be mapped
ParSkipRoot(i) ==
    /\ pres.kind = "none"
    /\ proots[i].st = "pending"
    /\ \E j \in DOMAIN proots : proots[j].st = "err"
    /\ proots' = [proots EXCEPT ![i].st = "skipped"]
    /\ UNCHANGED <<scanVars, rollupVars, errVars, gprog, callerVars, pres, bk, bloom,
                   fetchVars, wring, tn, ur, vb>>

RECURSIVE ReduceFrom(_, _, _)
\* the reduction of the maps of the roots i..Len(rs) into acc
ReduceFrom(acc, rs, i) ==
    IF i > Len(rs) THEN acc
    ELSE Only({ ReduceFrom(MergeMap(a, rs[i].map, DOMAIN rs[i].map), rs, i + 1) :
                    a \in {acc} })

\* try_reduce: Err as soon as one item is Err, else the merged map
ParTryReduce ==
    /\ pres.kind = "none"
    /\ \A i \in DOMAIN proots : proots[i].st # "pending"
    /\ pres' = IF \E i \in DOMAIN proots : proots[i].st = "err"
               THEN [kind |-> "err", map |-> EmptyMap]
               ELSE [kind |-> "ok", map |-> ReduceFrom(EmptyMap, proots, 1)]
    /\ UNCHANGED <<scanVars, rollupVars, errVars, gprog, callerVars, proots, bk, bloom,
                   fetchVars, wring, tn, ur, vb>>

NextMulti ==
    \/ \E i \in DOMAIN proots : ParScanRoot(i)
    \/ \E i \in DOMAIN proots : ParSkipRoot(i)
    \/ ParTryReduce

SpecMulti == InitMulti /\ [][NextMulti]_vars

\* C14: in multi-root mode a root that cannot be scanned produces an error
\* for that root only: when parallel_scan returns, every root that exists
\* has been scanned and its statistics are in what is returned.
C14_OtherRootsReturned ==
    pres.kind # "none" =>
        \A i \in DOMAIN proots :
            proots[i].exists =>
                /\ proots[i].st = "ok"
                /\ RootKey(i) \in DOMAIN pres.map
                /\ pres.map[RootKey(i)].files = proots[i].files

-----------------------------------------------------------------------------
(* platform/mod.rs: process_dir_wrapped hands a directory to the io_uring   *)
(* backend or to the getdents64 backend; the two applied to one entry       *)

\* an entry of a directory of the tree, the Options and environment of a
\* scan, the inode cache empty or holding the entry's inode, and the drain
\* that reaps the entry's completion
BackendInputs ==
    { [o |-> s[1], e |-> s[2], dir |-> d, ent |-> x, seenBefore |-> c, inline |-> i] :
        s \in Scenarios \cup LinkScenarios, d \in AllDirs,
        x \in UNION { { DirEntries(e2, d2)[n] : n \in DOMAIN DirEntries(e2, d2) } :
                        <<e2, d2>> \in { <<LinksEnv, dd>> : dd \in AllDirs } },
        c \in BOOLEAN, i \in BOOLEAN }

InitBackends ==
    /\ ScanQuiet
    /\ RollupIdle
    /\ MultiIdle
    /\ TunerIdle
    /\ PipelineIdle
    /\ VisitIdle
    /\ \E b \in BackendInputs :
          /\ \E n \in DOMAIN DirEntries(b.e, b.dir) : DirEntries(b.e, b.dir)[n] = b.ent
          /\ bk = [pc |-> "start", input |-> b]

\* both backends run on the entry
BackendsApply ==
    /\ bk.pc = "start"
    /\ LET b     == bk.input
           cache == IF b.seenBefore THEN { DedupKey(StatTarget(b.o, b.e, b.ent)) } ELSE {}
           depth == Len(b.dir) - Len(Root)
       IN bk' = [pc |-> "done", input |-> b,
                 fast |-> FastEntry(b.o, b.e, cache, {}, {}, b.dir, depth, b.ent),
                 uring |-> UringEntry(b.o, b.e, cache, b.dir, depth, b.ent, b.inline)]
    /\ UNCHANGED <<scanVars, rollupVars, errVars, gprog, callerVars, multiVars, bloom,
                   fetchVars, wring, tn, ur, vb>>

NextBackends == BackendsApply

SpecBackends == InitBackends /\ [][NextBackends]_vars

\* C18: for the same tree and options the io_uring backend and the
\* getdents64 backend count the same statistics for an entry and enqueue
\* the same child directory: both apply the name and path filters, the
\* one-file-system check, the visit-set check, hardlink dedup, the minimum
\* size and the approximate-size rule to the same entries.
C18_BackendsAgree ==
    bk.pc = "done" =>
        /\ bk.fast.push = bk.uring.push
        /\ bk.fast.stat = bk.uring.stat


-----------------------------------------------------------------------------
(* tuning.rs: the tuner thread on its own, with measured rates and io_uring *)
(* counters as numbers                                                       *)

\* ticks of the tuner that are followed
MaxTicks == 3

\* files/second rates a tick can measure
TuneRates == {0, 100, 103, 120}

\* increments of uring_sqe_fail, uring_submit_wait_ns and uring_cqe_comp
\* over one interval
TuneFails == {0, 1}
TuneWaits == {2500000, 3500000}
TuneCqes == {0, 1}

\* values of dir_yield_every and uring_batch a scan can start with
TuneYields == {0, 5000, 131072}
TuneBatches == {64, 4064, 5000}

\* (fps - r) / r > 0.05 for a rate r > 0
Above5(fps, r) == r > 0 /\ fps * 100 > r * 105

\* avg_wait_ms > ms, avg_wait_ms being dwait / dcqe / 1.0e6, or 0.0 when no
\* completion was counted
AvgWaitAbove(dwait, dcqe, ms) == dcqe > 0 /\ dwait > ms * 1000000 * dcqe

\* the thread's locals before the loop and the knobs it shares with the scan
TuneStart(y, b, n) ==
    [pc |-> "check", running |-> TRUE, idx |-> NearestYieldIdx(y), dir |-> 1,
     best_fps |-> 0, last_fps |-> 0, ticks |-> 0,
     fps |-> 0, dfail |-> 0, dwait |-> 0, dcqe |-> 0,
     dir_yield_every |-> y, uring_batch |-> b, active_threads |-> n, threads |-> n]

\* one pass of the loop body after the sleep
TuneBody(t, fps, dfail, dwait, dcqe) ==
    LET improve     == Above5(fps, t.best_fps)
        dir1        == IF improve THEN t.dir ELSE 0 - t.dir
        next        == Clamp(t.idx + dir1, 0, Len(yield_steps) - 1)
        batch       == IF dfail > 0 THEN Max(Max(t.uring_batch - 64, 0), 64)
                       ELSE IF AvgWaitAbove(dwait, dcqe, 2)
                            THEN Max(Max(t.uring_batch - 32, 0), 64)
                       ELSE Min(t.uring_batch + 32, 4096)
        max_threads == Max(t.threads, 1)
        active      == Clamp(t.active_threads, 1, max_threads)
        active1     == IF dfail > 0 \/ AvgWaitAbove(dwait, dcqe, 3)
                       THEN (IF active > 1 THEN active - 1 ELSE active)
                       ELSE IF Above5(fps, t.last_fps) /\ active < max_threads
                            THEN active + 1
                       ELSE active
    IN [t EXCEPT !.pc = "check",
                 !.idx = next,
                 !.dir = dir1,
                 !.best_fps = IF improve THEN fps ELSE @,
                 !.last_fps = fps,
                 !.ticks = @ + 1,
                 !.fps = fps, !.dfail = dfail, !.dwait = dwait, !.dcqe = dcqe,
                 !.dir_yield_every = IF next # t.idx THEN yield_steps[next + 1] ELSE @,
                 !.uring_batch = batch,
                 !.active_threads = active1]

tunerRest == <<scanVars, rollupVars, errVars, gprog, callerVars, multiVars, bk, bloom,
               fetchVars, wring, ur, vb>>

InitTuner ==
    /\ ScanQuiet
    /\ RollupIdle
    /\ MultiIdle
    /\ BackendsIdle
    /\ PipelineIdle
    /\ VisitIdle
    /\ \E y \in TuneYields, b \in TuneBatches, n \in 1..MaxThreads :
          tn = TuneStart(y, b, n)

\* if !running || cancel { break; }
TuneCheck ==
    /\ tn.pc = "check"
    /\ tn' = [tn EXCEPT !.pc = IF tn.running THEN "tick" ELSE "done"]
    /\ UNCHANGED tunerRest

\* sleep, measure, adjust the three knobs
TuneTick ==
    /\ tn.pc = "tick"
    /\ tn.ticks < MaxTicks
    /\ \E fps \in TuneRates, dfail \in TuneFails, dwait \in TuneWaits, dcqe \in TuneCqes :
          tn' = TuneBody(tn, fps, dfail, dwait, dcqe)
    /\ UNCHANGED tunerRest

\* TunerGuard::drop
TuneDrop ==
    /\ tn.pc \in {"check", "tick"}
    /\ tn.running
    /\ tn' = [tn EXCEPT !.running = FALSE]
    /\ UNCHANGED tunerRest

NextTuner == TuneCheck \/ TuneTick \/ TuneDrop

SpecTuner == InitTuner /\ [][NextTuner]_vars

\* a tick has just run
Ticked == tn.pc = "tick" /\ tn'.pc = "check"

\* the rate a tick is compared with: TuneState.best_fps once one is
\* recorded, the rate of the tick before until then
RefRate == IF tn.best_fps > 0 THEN tn.best_fps ELSE tn.last_fps

\* C27: on a tick whose rate exceeds the reference rate by more than 5%
\* dir_yield_every moves one index of the candidate list in the current
\* direction; on a tick whose rate is more than 5% lower the direction is
\* reversed and it moves one index; on a tick within 5% neither the value
\* nor the direction changes.  The value stored is a candidate.
C27_YieldFollowsRate ==
    [][(Ticked /\ RefRate > 0) =>
        LET fps  == tn'.fps
            up   == fps * 100 > RefRate * 105
            down == fps * 100 < RefRate * 95
            d    == IF down THEN 0 - tn.dir ELSE tn.dir
            to   == Clamp(tn.idx + d, 0, Len(yield_steps) - 1)
        IN /\ tn'.dir = d
           /\ tn'.idx = IF up \/ down THEN to ELSE tn.idx
           /\ tn'.dir_yield_every = IF (up \/ down) /\ to # tn.idx
                                    THEN yield_steps[to + 1]
                                    ELSE tn.dir_yield_every]_vars

\* C28: after every tick uring_batch is in [64, 4096], whatever it was
\* before, and it is its former value minus 64 when SQE failures occurred,
\* minus 32 when none occurred but the average submit wait per CQE exceeded
\* 2 ms, plus 32 otherwise, each clamped to the range.
C28_BatchStepsInRange ==
    [][Ticked =>
        LET delta == IF tn'.dfail > 0 THEN 0 - 64
                     ELSE IF AvgWaitAbove(tn'.dwait, tn'.dcqe, 2) THEN 0 - 32
                     ELSE 32
        IN /\ tn'.uring_batch \in 64..4096
           /\ tn'.uring_batch = Clamp(tn.uring_batch + delta, 64, 4096)]_vars


-----------------------------------------------------------------------------
(* platform/linux_uring_impl.rs: the STATX pipeline of one                  *)
(* process_with_ring call.  The non-directory entries of the directory are  *)
(* numbered 1..n in the order getdents64 returns them.                      *)

\* non-directory entries of the directory
MaxStatx == 4

\* uring_sq_depth when the call begins
MaxSqDepth == 2

\* submission-queue sizes of the thread's ring: io_uring rounds the depth
\* given at creation up to a power of two
RingSizes == {1, 2}

SeqRange(s) == { s[i] : i \in DOMAIN s }

\* the locals of process_with_ring before the enumeration loop, the ring
\* (sq: pushed and not yet consumed by the kernel, kern: being executed,
\* cq: completed and not yet reaped)
RingStart(n, entries, sqpoll, sq_depth) ==
    [pc |-> "top", n |-> n, entries |-> entries, sqpoll |-> sqpoll,
     sq_depth |-> sq_depth, window |-> sq_depth, free |-> sq_depth,
     inflight |-> 0, pending |-> << >>, enq |-> 0, fail |-> 0, consec_no_fail |-> 0,
     pos |-> 0, buf |-> 0,
     sq |-> << >>, kern |-> {}, cq |-> {},
     gsub |-> [e \in 1..n |-> 0], gcomp |-> [e \in 1..n |-> 0], rounds |-> 0,
     gstreak |-> 0, gfail0 |-> 0]

\* sq.push(&sqe) succeeded
Pushed(u, e) ==
    [u EXCEPT !.sq = Append(@, e), !.inflight = @ + 1, !.enq = @ + 1,
              !.gsub[e] = @ + 1]

\* ring.submit(): io_uring_enter consumes the submission queue; with SQPOLL
\* the kernel thread consumes it on its own
RingSubmit(u) ==
    IF u.sqpoll THEN u
    ELSE [u EXCEPT !.kern = @ \cup SeqRange(u.sq), !.sq = << >>]

\* the submission loop of the enumeration: submit and retry once on SQ full
RECURSIVE SubmitRetry(_)
SubmitRetry(u) ==
    IF u.inflight >= u.window \/ u.pending = << >> THEN u
    ELSE LET e  == Head(u.pending)
             u1 == [u EXCEPT !.pending = Tail(@)]
         IN IF u1.free = 0 THEN u1
            ELSE LET u2 == [u1 EXCEPT !.free = @ - 1]
                     u3 == RingSubmit(u2)
                 IN IF Len(u2.sq) < u2.entries THEN SubmitRetry(Pushed(u2, e))
                    ELSE IF Len(u3.sq) < u3.entries THEN SubmitRetry(Pushed(u3, e))
                    ELSE [u3 EXCEPT !.fail = @ + 1,
                                    !.window = IF @ > 1 THEN @ - 1 ELSE @]

\* the submission loop of the final drain: no retry
RECURSIVE SubmitOnce(_)
SubmitOnce(u) ==
    IF u.inflight >= u.window \/ u.pending = << >> THEN u
    ELSE LET e  == Head(u.pending)
             u1 == [u EXCEPT !.pending = Tail(@)]
         IN IF u1.free = 0 THEN u1
            ELSE LET u2 == [u1 EXCEPT !.free = @ - 1]
                 IN IF Len(u2.sq) < u2.entries THEN SubmitOnce(Pushed(u2, e))
                    ELSE [u2 EXCEPT !.fail = @ + 1]

\* the completions reaped without their slots going back to the free stack
ReapKeepsSlot(u) ==
    [u EXCEPT !.inflight = @ - Cardinality(u.cq),
              !.gcomp = [e \in DOMAIN @ |-> IF e \in u.cq THEN @[e] + 1 ELSE @[e]],
              !.cq = {}]

\* for cqe in ring.completion() { ...; free.push(slot); inflight -= 1 }
Reap(u) ==
    [u EXCEPT !.free = @ + Cardinality(u.cq),
              !.inflight = @ - Cardinality(u.cq),
              !.gcomp = [e \in DOMAIN @ |-> IF e \in u.cq THEN @[e] + 1 ELSE @[e]],
              !.cq = {}]

\* Reap followed by the adaptive growth of the window
ReapGrow(u) ==
    LET completed == Cardinality(u.cq)
        r         == Reap(u)
        grow      == completed > 0 /\ r.fail = 0 /\ r.inflight >= r.window
                     /\ r.window < r.sq_depth
    IN IF grow
       THEN (IF r.consec_no_fail + 1 >= 3
             THEN [r EXCEPT !.window = @ + 1, !.consec_no_fail = 0]
             ELSE [r EXCEPT !.consec_no_fail = @ + 1])
       ELSE IF r.fail > 0 THEN [r EXCEPT !.consec_no_fail = 0]
       ELSE r

\* history: the iterations in a row, this one included, that ended their
\* submission phase with inflight = window, had no SQE failure (fail0 is
\* `fail` when the iteration began) and reaped a completion; u is the state
\* before the reaping
Streak(fail0, u) ==
    IF u.inflight = u.window /\ u.fail = fail0 /\ u.cq # {}
    THEN u.gstreak + 1
    ELSE 0

ringRest == <<scanVars, rollupVars, errVars, gprog, callerVars, multiVars, bk, bloom,
              fetchVars, wring, tn, vb>>

InitRing ==
    /\ ScanQuiet
    /\ RollupIdle
    /\ MultiIdle
    /\ BackendsIdle
    /\ TunerIdle
    /\ VisitIdle
    /\ \E n \in 1..MaxStatx, entries \in RingSizes, sqpoll \in BOOLEAN,
          sq_depth \in 1..MaxSqDepth :
          ur = RingStart(n, entries, sqpoll, sq_depth)

\* top of the enumeration loop: keep the window saturated, then getdents64
RingTop ==
    /\ ur.pc = "top"
    /\ LET s  == SubmitRetry(ur)
           u1 == IF ur.pending = << >> THEN ur
                 ELSE ReapGrow(IF s.inflight = s.window THEN RingSubmit(s) ELSE s)
           u2 == IF ur.pending = << >> THEN u1
                 ELSE [u1 EXCEPT !.gstreak = Streak(ur.fail, s)]
       IN ur' = IF u2.pos = u2.n
                THEN [u2 EXCEPT !.pc = "drain"]
                ELSE [u2 EXCEPT !.pc = "entry", !.buf = Min(DentsBuf, u2.n - u2.pos)]
    /\ UNCHANGED ringRest

\* one non-directory entry of the buffer
RingEntry ==
    /\ ur.pc = "entry"
    /\ LET e  == ur.pos + 1
           u1 == Reap(SubmitRetry([ur EXCEPT !.pending = Append(@, e)]))
       IN ur' = [u1 EXCEPT !.pos = e, !.buf = @ - 1,
                           !.pc = IF ur.buf = 1 THEN "top" ELSE "entry"]
    /\ UNCHANGED ringRest

\* one round of the final drain up to the wait inside submit_and_wait(1)
RingDrain ==
    /\ ur.pc = "drain"
    /\ ur' = IF ur.inflight > 0 \/ ur.pending # << >>
             THEN [RingSubmit(SubmitOnce(ur)) EXCEPT !.pc = "wait", !.rounds = 1,
                                                      !.gfail0 = ur.fail]
             ELSE [ur EXCEPT !.pc = "done"]
    /\ UNCHANGED ringRest

\* submit_and_wait(1) returns with a completion; the completions are reaped
RingWait ==
    /\ ur.pc = "wait"
    /\ ur.cq # {}
    /\ ur' = [ReapGrow(ur) EXCEPT !.pc = "drain", !.gstreak = Streak(ur.gfail0, ur)]
    /\ UNCHANGED ringRest

\* the kernel's SQPOLL thread takes the oldest request off the queue
KernelPoll ==
    /\ ur.pc # "idle"
    /\ ur.sqpoll
    /\ ur.sq # << >>
    /\ ur' = [ur EXCEPT !.sq = Tail(@), !.kern = @ \cup {Head(ur.sq)}]
    /\ UNCHANGED ringRest

\* the kernel completes a request
KernelComplete ==
    /\ ur.pc # "idle"
    /\ \E e \in ur.kern :
          ur' = [ur EXCEPT !.kern = @ \ {e}, !.cq = @ \cup {e}]
    /\ UNCHANGED ringRest

NextRing == RingTop \/ RingEntry \/ RingDrain \/ RingWait \/ KernelPoll \/ KernelComplete

SpecRing == InitRing /\ [][NextRing]_vars

\* the thread runs; the kernel consumes and completes what was submitted
FairRing ==
    /\ WF_vars(RingTop) /\ WF_vars(RingEntry) /\ WF_vars(RingDrain) /\ WF_vars(RingWait)
    /\ WF_vars(KernelPoll) /\ WF_vars(KernelComplete)

FairSpecRing == SpecRing /\ FairRing

\* C29: every non-directory entry read is submitted as a STATX request
\* exactly once and its completion is handled exactly once before
\* process_with_ring returns; an entry that could not be submitted, because
\* the submission queue was full also after the retry or no slot was free,
\* is still queued.
C29_EveryEntrySubmittedOnce ==
    /\ \A e \in 1..ur.pos :
          /\ ur.gsub[e] <= 1
          /\ ur.gcomp[e] <= ur.gsub[e]
          /\ ur.gsub[e] = 0 => e \in SeqRange(ur.pending)
    /\ ur.pc = "done" => \A e \in 1..ur.n : ur.gsub[e] = 1 /\ ur.gcomp[e] = 1

\* the final drain ran through at least one round and has finished
C30_Witness ==
    /\ ur.pc = "done"
    /\ ur.rounds = 1
    /\ ur.fail > 0

\* C30: provided every submitted request completes, the final drain ends,
\* with inflight = 0 and pending empty, and the thread never waits in
\* submit_and_wait(1) while no request is in flight.
C30_FinalDrainTerminates ==
    /\ [](ur.pc = "wait" => ur.inflight > 0)
    /\ <>(ur.pc = "done" /\ ur.inflight = 0 /\ ur.pending = << >>)


\* C31: after three iterations in a row in which inflight = window, no SQE
\* failure occurred and a completion was reaped, the window grows by 1,
\* never beyond sq_depth; so a window that shrank under SQ pressure grows
\* back while the directory is still being processed.
C31_WindowGrowsAfterThree ==
    [][/\ ur'.window <= ur'.sq_depth
       /\ (ur'.gstreak = 3 /\ ur.gstreak = 2 /\ ur.window < ur.sq_depth)
             => ur'.window = ur.window + 1]_vars


\* the position of the child c among the entries of its directory
IndexInDir(e, c) ==
    CHOOSE i \in DOMAIN DirEntries(e, SubSeq(c, 1, Len(c) - 1)) :
        DirEntries(e, SubSeq(c, 1, Len(c) - 1))[i].name = c[Len(c)]

\* another name of the same inode has been counted while hardlinks are
\* deduplicated
CountedUnderOtherName(c) ==
    /\ ~opt.count_hardlinks
    /\ opt.inode_cache
    /\ \E c2 \in DOMAIN gcount :
          /\ c2 # c
          /\ gcount[c2] > 0
          /\ DedupKey(EntryOf(env, c2)) = DedupKey(EntryOf(env, c))

\* C32: the re-scan at the end of process_with_ring counts no file a second
\* time and no file the pipeline left out on purpose: what it counts was
\* not counted before, is not a hardlink duplicate of a counted file, is at
\* least min_file_size long, does not match a name filter and, for a job
\* with a resume offset, lies behind the offset.
C32_FallbackCountsOnlyUncounted ==
    [][\A w \in WorkerIds : \A c \in DOMAIN gcount :
          (wpc[w] = "rescan" /\ gcount'[c] > gcount[c]
              /\ SubSeq(c, 1, Len(c) - 1) = wjob[w].dir) =>
             /\ gcount[c] = 0
             /\ ~CountedUnderOtherName(c)
             /\ EntryOf(env, c).size >= opt.min_file_size
             /\ ~FilterMatched(c, opt)
             /\ wjob[w].resume # << >> => IndexInDir(env, c) > wjob[w].resume[1]]_vars


-----------------------------------------------------------------------------
(* platform/linux_uring_impl.rs: a completion with a negative result, at    *)
(* each of the three places where process_with_ring reaps completions       *)

\* the drain before getdents64, the drain after each entry, the final drain
DrainPlaces == {"pre_read", "inline", "final"}

\* What the drain at `place` does with the completion of ent's STATX when
\* cqe.result() < 0: the job pushed and the (logical, physical) counted
NegativeCqe(o, e, dir, depth, ent, place) ==
    LET child == Join(dir, ent.name)
        pass  == [push |-> << >>, stat |-> << >>]
    IN
    IF place = "inline" THEN pass
    ELSE IF d_type(e, ent) = "DT_DIR"
         THEN (IF DepthBudget(o, depth) /\ ~path_excluded(child, o)
               THEN [pass EXCEPT !.push = << Job(child, depth + 1, << >>) >>]
               ELSE pass)
    ELSE IF child \in e.nostat THEN pass
    ELSE IF ent.kind = "S_IFREG" /\ ent.size >= o.min_file_size
         THEN [pass EXCEPT !.stat = << <<ent.size, ent.size>> >>]
    ELSE pass

\* an entry whose STATX went through the ring (DT_DIR entries are enqueued
\* at enumeration and never submitted) and the drain reaping it
InitCqeErr ==
    /\ ScanQuiet
    /\ RollupIdle
    /\ MultiIdle
    /\ TunerIdle
    /\ PipelineIdle
    /\ VisitIdle
    /\ \E b \in { c \in [o : { s[1] : s \in Scenarios \cup LinkScenarios },
                         e : { s[2] : s \in Scenarios \cup LinkScenarios },
                         dir : AllDirs, n : 1..4, place : DrainPlaces] :
                    /\ <<c.o, c.e>> \in Scenarios \cup LinkScenarios
                    /\ c.n \in DOMAIN DirEntries(c.e, c.dir)
                    /\ d_type(c.e, DirEntries(c.e, c.dir)[c.n]) # "DT_DIR" } :
          bk = [pc |-> "cqe",
                input |-> [o |-> b.o, e |-> b.e, dir |-> b.dir,
                           ent |-> DirEntries(b.e, b.dir)[b.n], place |-> b.place]]

\* the drain handles the completion
ReapNegative ==
    /\ bk.pc = "cqe"
    /\ LET b == bk.input
       IN bk' = [pc |-> "reaped", input |-> b,
                 out |-> NegativeCqe(b.o, b.e, b.dir, Len(b.dir) - Len(Root), b.ent, b.place)]
    /\ UNCHANGED <<scanVars, rollupVars, errVars, gprog, callerVars, multiVars, bloom,
                   fetchVars, wring, tn, ur, vb>>

NextCqeErr == ReapNegative

SpecCqeErr == InitCqeErr /\ [][NextCqeErr]_vars

\* C33: wherever a completion with a negative result is reaped, the entry
\* is probed through symlink metadata and counted when it is a regular file
\* of at least min_file_size: a failed STATX does not drop the entry.
C33_NegativeCqeProbed ==
    (bk.pc = "reaped" /\ bk.input.ent.kind = "S_IFREG"
        /\ bk.input.ent.size >= bk.input.o.min_file_size
        /\ Join(bk.input.dir, bk.input.ent.name) \notin bk.input.e.nostat) =>
       bk.out.stat = << <<bk.input.ent.size, bk.input.ent.size>> >>


-----------------------------------------------------------------------------
(* Loop detection on its own: threads presenting directory identities to    *)
(* check_visited_directory (common_ops.rs, used by the Linux and macOS      *)
(* backends) or to the inline test of the generic Unix and Windows          *)
(* backends, with Bloom::test_and_set as two separate fetch_or steps        *)

\* presentations per thread
MaxPresent == 2

VisitThreads == 0..1

\* (dev, ino) identities of directories
VisitKeys == {"k1", "k2", "k3"}

\* Bloom::h for the key and for the key rotated: the two bit positions of a
\* key.  The filter has far fewer pairs of positions than there are keys;
\* k3 stands for a key whose positions are the first of k1 and the second
\* of k2.
BloomPos(k) ==
    CASE k = "k1" -> <<1, 2>>
      [] k = "k2" -> <<3, 4>>
      [] OTHER    -> <<1, 4>>

VisitApis == {"common", "generic"}

NoCall == [pc |-> "idle", key |-> "k1", old1 |-> FALSE, after |-> FALSE, n |-> 0]

\* follow_links on, visited_dirs configured, visited_bloom configured or not
VisitStart(api, bloomOn) ==
    [pc |-> "run", api |-> api, bloom |-> bloomOn, bits |-> {}, vset |-> {},
     th |-> [t \in VisitThreads |-> NoCall],
     gcalls |-> [k \in VisitKeys |-> 0], gdone |-> {},
     gfalse |-> [k \in VisitKeys |-> 0], glate |-> {},
     gpass |-> [k \in VisitKeys |-> 0], gbad |-> {}]

visitRest == <<scanVars, rollupVars, errVars, gprog, callerVars, multiVars, bk, bloom,
               fetchVars, wring, tn, ur>>

InitVisit ==
    /\ ScanQuiet
    /\ RollupIdle
    /\ MultiIdle
    /\ BackendsIdle
    /\ TunerIdle
    /\ PipelineIdle
    /\ \E api \in VisitApis, bloomOn \in BOOLEAN : vb = VisitStart(api, bloomOn)

\* the call returned `skip` for the key of thread t
Returned(v, t, skip) ==
    LET c == v.th[t]
    IN [v EXCEPT !.th[t] = [c EXCEPT !.pc = "idle", !.n = @ + 1],
                 !.gpass[c.key] = IF skip THEN @ ELSE @ + 1,
                 !.gbad = IF skip /\ v.gcalls[c.key] = 1 THEN @ \cup {c.key} ELSE @]

\* a worker meets a directory and starts the visit test with its identity
VisitPresent(t) ==
    /\ vb.pc = "run"
    /\ vb.th[t].pc = "idle"
    /\ vb.th[t].n < MaxPresent
    /\ \E k \in VisitKeys :
          vb' = [vb EXCEPT !.th[t] = [@ EXCEPT !.pc = IF vb.bloom THEN "or1" ELSE "insert",
                                               !.key = k,
                                               !.after = k \in vb.gdone],
                           !.gcalls[k] = @ + 1]
    /\ UNCHANGED visitRest

\* let old1 = w1.fetch_or(b1, Relaxed);
BloomOr1(t) ==
    /\ vb.pc = "run"
    /\ vb.th[t].pc = "or1"
    /\ LET p == BloomPos(vb.th[t].key)[1]
       IN vb' = [vb EXCEPT !.th[t] = [@ EXCEPT !.pc = "or2", !.old1 = p \in vb.bits],
                           !.bits = @ \cup {p}]
    /\ UNCHANGED visitRest

\* let old2 = w2.fetch_or(b2, Relaxed); test_and_set returns; what the
\* caller does with the answer
BloomOr2(t) ==
    /\ vb.pc = "run"
    /\ vb.th[t].pc = "or2"
    /\ LET c   == vb.th[t]
           p   == BloomPos(c.key)[2]
           hit == c.old1 /\ p \in vb.bits
           v1  == [vb EXCEPT !.bits = @ \cup {p},
                             !.gdone = @ \cup {c.key},
                             !.gfalse[c.key] = IF hit THEN @ ELSE @ + 1,
                             !.glate = IF c.after /\ ~hit THEN @ \cup {c.key} ELSE @]
       IN vb' = IF vb.api = "common"
                THEN (IF ~hit THEN Returned(v1, t, FALSE)
                      ELSE [v1 EXCEPT !.th[t].pc = "insert"])
                ELSE (IF hit THEN Returned(v1, t, TRUE)
                      ELSE [v1 EXCEPT !.th[t].pc = "insert"])
    /\ UNCHANGED visitRest

\* vset.insert((dev, ino), ()).is_some()
VisitInsert(t) ==
    /\ vb.pc = "run"
    /\ vb.th[t].pc = "insert"
    /\ LET k == vb.th[t].key
       IN vb' = Returned([vb EXCEPT !.vset = @ \cup {k}], t, k \in vb.vset)
    /\ UNCHANGED visitRest

NextVisit ==
    \E t \in VisitThreads :
        VisitPresent(t) \/ BloomOr1(t) \/ BloomOr2(t) \/ VisitInsert(t)

SpecVisit == InitVisit /\ [][NextVisit]_vars

\* C34: Bloom::test_and_set is atomic for concurrent callers: among the
\* calls for a key at most one returns false, and a call begun after a call
\* for the same key has returned does not return false.
C34_TestAndSetAtomic ==
    /\ \A k \in VisitKeys : vb.gfalse[k] <= 1
    /\ vb.glate = {}

\* C35: with follow_links on and the visited set configured, with or
\* without the Bloom filter, check_visited_directory returns false for one
\* presentation of an identity at most, whatever the interleaving: a
\* directory identity is enqueued at most once.
C35_IdentityPassesOnce ==
    vb.api = "common" => \A k \in VisitKeys : vb.gpass[k] <= 1

\* C36: a directory is skipped as visited only if its exact identity was
\* put into the visited set by another check: a directory whose identity no
\* other call has presented is not skipped, whatever bits other keys have
\* set in the Bloom filter.
C36_NoSkipOnBloomAlone ==
    vb.gbad = {}


-----------------------------------------------------------------------------
(* platform/unix_fallback_impl.rs: process_dir, one entry that readdir does *)
(* not report as a directory, next to the Linux getdents64 backend          *)

\* The file branches of the loop body: the (logical, physical) counted and
\* the inode cache afterwards.  The DT_REG branch counts the estimate when
\* the approximation applies and otherwise ends without a statx: the statx
\* path is the else branch of the d_type test, taken for the other types.
UnixFileEntryWith(o, e, cache, dir, ent, st) ==
    LET name    == Bytes(ent.name)
        child   == Join(dir, ent.name)
        dt      == d_type(e, ent)
        key     == DedupKey(st)
        failing == child \in e.nostat
        pass    == [stat |-> << >>, cache |-> cache]
    IN
    IF name_matches(name, o) THEN pass
    ELSE IF ~should_fast_exclude(o) /\ path_excluded(child, o) THEN pass
    ELSE IF dt = "DT_LNK" /\ ~o.follow_links THEN pass
    ELSE IF dt = "DT_REG" THEN
        IF ~o.compute_physical /\ o.approximate_sizes /\ o.min_file_size = 0
        THEN [pass EXCEPT !.stat = << <<4096, 4096>> >>]
        ELSE pass
    ELSE IF failing THEN pass
    ELSE IF st.size < o.min_file_size THEN pass
    ELSE IF check_hardlink_duplicate(o, cache, key) THEN pass
    ELSE [stat |-> << <<st.size, calculate_physical_size(o, st.size, st.blocks)>> >>,
          cache |-> CacheAfter(o, cache, key)]

UnixFileEntry(o, e, cache, dir, ent) ==
    Only({ UnixFileEntryWith(o, e, cache, dir, ent, s) : s \in { StatTarget(o, e, ent) } })

\* an entry that is not reported as a directory, in a directory of the
\* tree, with the Options and environment of a scan and the inode cache
\* empty or holding the entry's inode
InitUnix ==
    /\ ScanQuiet
    /\ RollupIdle
    /\ MultiIdle
    /\ TunerIdle
    /\ PipelineIdle
    /\ VisitIdle
    /\ \E b \in BackendInputs :
          /\ \E n \in DOMAIN DirEntries(b.e, b.dir) : DirEntries(b.e, b.dir)[n] = b.ent
          /\ d_type(b.e, b.ent) # "DT_DIR"
          /\ ~b.inline
          /\ bk = [pc |-> "entry", input |-> b]

\* both backends run on the entry
UnixApply ==
    /\ bk.pc = "entry"
    /\ LET b     == bk.input
           cache == IF b.seenBefore THEN { DedupKey(StatTarget(b.o, b.e, b.ent)) } ELSE {}
           depth == Len(b.dir) - Len(Root)
       IN bk' = [pc |-> "compared", input |-> b, seen |-> cache,
                 fast |-> FastEntry(b.o, b.e, cache, {}, {}, b.dir, depth, b.ent),
                 unix |-> UnixFileEntry(b.o, b.e, cache, b.dir, b.ent)]
    /\ UNCHANGED <<scanVars, rollupVars, errVars, gprog, callerVars, multiVars, bloom,
                   fetchVars, wring, tn, ur, vb>>

NextUnix == UnixApply

SpecUnix == InitUnix /\ [][NextUnix]_vars

\* C37: the generic Unix backend counts as the Linux getdents64 backend
\* does: an entry reported as DT_REG that passes the filters and is at
\* least min_file_size long (and is no hardlink duplicate) is counted once,
\* with the same sizes by both backends, with the approximation or without.
C37_UnixCountsLikeFast ==
    (/\ bk.pc = "compared"
     /\ d_type(bk.input.e, bk.input.ent) = "DT_REG"
     /\ ~FilterMatched(Join(bk.input.dir, bk.input.ent.name), bk.input.o)
     /\ Join(bk.input.dir, bk.input.ent.name) \notin bk.input.e.nostat
     /\ bk.input.ent.size >= bk.input.o.min_file_size
     /\ ~check_hardlink_duplicate(bk.input.o, bk.seen, DedupKey(bk.input.ent))) =>
        /\ bk.unix.stat # << >>
        /\ bk.unix.stat = bk.fast.stat


-----------------------------------------------------------------------------
(* lib.rs: the keys of the map scan_directory_with returns *)

\* C38: every key of the returned map is the root or a path beneath the
\* root: the rollup adds no entry for a directory above the root.
C38_KeysAtOrBelowRoot ==
    mpc = "returned" => \A k \in DOMAIN result : k = Root \/ Descends(Root, k)


-----------------------------------------------------------------------------
(* common_ops.rs, tuning.rs: the counter the tuner reads *)

\* C39: when the tuner computes its throughput, and when the scan has
\* returned, total_files is the number of files counted into the statistics
\* so far, for every progress_every, 0 included.
C39_TotalFilesIsCounted ==
    (tpc = "tick" \/ mpc = "returned") => total_files = CountSum(AllChildren(env))


-----------------------------------------------------------------------------
(* linux_uring_impl.rs: the slot pool *)

\* C40: at every point of the pipeline the slot pool is partitioned: every
\* slot is on the free stack or holds one request in flight, so the length
\* of `free` plus `inflight` is the size of the pool, and the requests in
\* flight are those in the submission queue, in the kernel or completed and
\* not reaped, each once.
C40_SlotPoolPartitioned ==
    /\ ur.free + ur.inflight = ur.sq_depth
    /\ ur.inflight = Len(ur.sq) + Cardinality(ur.kern) + Cardinality(ur.cq)
    /\ Cardinality(SeqRange(ur.sq)) = Len(ur.sq)
    /\ SeqRange(ur.sq) \cap ur.kern = {}
    /\ (SeqRange(ur.sq) \cup ur.kern) \cap ur.cq = {}

====
